---- MODULE Spec2Model ----
(***************************************************************************)
(* State-machine, object-pool, enemy and scene behaviour of the space      *)
(* shooter, modelled from the TypeScript sources.                          *)
(*                                                                         *)
(*   SpecSM     StateMachine (src/src/states/state-machine.ts)             *)
(*   SpecPool   ObjectPool   (src/sidequest/core/state-machine.ts)         *)
(*   SpecEnemy  one EnemyShip with its projectiles (src/unnamed/part_012), *)
(*              driven the way GameScene drives it                         *)
(*   SpecEnemyApi  the same enemy, with shoot() also called directly       *)
(*   SpecScene  GameScene.update: enemies, collisions, spawning            *)
(*              (src/unnamed/part_005)                                     *)
(*   SpecSpawns the same scene without collisions, with either step drawn   *)
(*              for the staggering of spawnEnemy                           *)
(*   SpecPlayer one PlayerShip with its ProjectilePool                     *)
(*              (src/src/entities/player-ship.ts): ticks with ArrowUp      *)
(*              input, takeDamage, addShield, destroy                      *)
(*   SpecPlayerKeys  the same player, driven only by ticks, with space     *)
(*              and ArrowUp input                                          *)
(*   SpecArena  GameScene.update as it reaches the player, one enemy and   *)
(*              the power-ups: ticks with the collision pass, fatal hits   *)
(*              on the enemy and what it drops                             *)
(*   SpecScore  the same scene with an idle player, until the enemy has     *)
(*              left the screen                                            *)
(*   SpecRestart  the same scene with destroy() called on the player, game  *)
(*              over and restartGame                                       *)
(*   SpecInput  the SideQuest InputManager under Game.update                *)
(*              (src/sidequest/managers/input-manager.ts): key events and  *)
(*              frames                                                     *)
(*   SpecPlayerShots  the same player and its pooled projectiles: ticks,   *)
(*              shoot(), onCollision of a projectile, takeDamage           *)
(*   SpecProjectiles  SpecPlayerShots with deactivate() of a projectile     *)
(*   SpecHeldFire  the same player with fire held in every tick, and hits   *)
(***************************************************************************)
EXTENDS Integers, Sequences, FiniteSets, TLC

VARIABLES
  sm_states,     \* StateMachine.states: the registered state names
  sm_current,    \* StateMachine.currentState (NULL before the first setState)
  sm_calls,      \* callbacks invoked by the last operation, in order
  sm_lastOp,     \* the last operation and the state it was called in
  op_active,     \* ObjectPool.activeObjects
  op_inactive,   \* ObjectPool.inactiveObjects
  op_flag,       \* Poolable.isActive() of every object
  op_created,    \* number of objects the factory has constructed
  op_maxSize,    \* ObjectPool.maxSize (0 = unlimited)
  op_last,       \* the last pool operation, its argument/result and pre-state
  enemy,         \* one EnemyShip and the projectiles it tracks
  en_removed,    \* the scene has destroyed the enemy and dropped it from its list
  en_time,       \* deltaTime accumulated by the enemy's ticks
  en_horizon,    \* the run delivers ticks while en_time is below this
  deltaTime,     \* the fixed timestep the tick source delivers
  en_last,       \* the last enemy operation and what its shoot() call saw and did
  scene,         \* GameScene: enemies, enemySpawnTimer, enemySpawnInterval, gameTime
  sc_collisions, \* collisions the arbitration pass has dispatched so far
  sc_last,       \* what the spawn attempt of the last scene update saw and did
  player,        \* one PlayerShip with the ProjectilePool it owns
  pl_last,       \* the last player operation and what it saw
  arena,         \* GameScene: powerUps, score, isGameOver, the time delivered
  ar_last,       \* what the last collision pass dispatched, and the last drop
  input,         \* the SideQuest InputManager: keyStates and the just-* sets
  in_last        \* the last input operation and what the scene update observed

smVars == <<sm_states, sm_current, sm_calls, sm_lastOp>>
opVars == <<op_active, op_inactive, op_flag, op_created, op_maxSize, op_last>>
enVars == <<enemy, en_removed, en_time, en_horizon, en_last>>
scVars == <<scene, sc_collisions, sc_last>>
plVars == <<player, pl_last>>
arVars == <<arena, ar_last>>
inVars == <<input, in_last>>
vars == <<sm_states, sm_current, sm_calls, sm_lastOp,
          op_active, op_inactive, op_flag, op_created, op_maxSize, op_last,
          enemy, en_removed, en_time, en_horizon, deltaTime, en_last,
          scene, sc_collisions, sc_last, player, pl_last, arena, ar_last,
          input, in_last>>

\* what the operations of one component leave alone
FrameSM == UNCHANGED <<opVars, enVars, deltaTime, scVars, plVars, arVars, inVars>>
FramePool == UNCHANGED <<smVars, enVars, deltaTime, scVars, plVars, arVars, inVars>>
FrameEnemy == UNCHANGED <<smVars, opVars, deltaTime, scVars, plVars, arVars, inVars>>
FrameScene == UNCHANGED <<smVars, opVars, enVars, deltaTime, plVars, arVars, inVars>>
FramePlayer == UNCHANGED <<smVars, opVars, enVars, deltaTime, scVars, arVars, inVars>>
FrameArena == UNCHANGED <<smVars, opVars, deltaTime, scVars, inVars>>
FrameInput == UNCHANGED <<smVars, opVars, enVars, deltaTime, scVars, plVars, arVars>>

----------------------------------------------------------------------------
(* Bounds *)

NumStateNames == 3     \* state names offered to addState / setState
MaxObjects == 3        \* objects the pool factory may construct
MaxListLen == 4        \* cap on the length of a pool partition

MaxDeltaTime == 2      \* deltaTime of a tick is 1..MaxDeltaTime
CooldownJitter == 25000   \* the random part of shootCooldown is 0 or this (1/100 ms)
SmallScreenHeight == 20   \* screen height of the short-lived enemy
EnemyHorizon == 200      \* deltaTime delivered to the enemy on the scene's screen
ApiHorizon == 60          \* deltaTime delivered to the short-lived enemy
ApiDeltaTime == 6         \* timestep of the short-lived enemy's ticks
SceneMaxDeltaTime == 3    \* timestep of the scene's ticks is 1 or this
SceneHorizon == 45        \* deltaTime delivered to the scene
MaxCollisions == 3        \* collisions the arbitration pass dispatches in a run
SceneSpeed == 2           \* vertical speed drawn for the enemies of the scene
PlayerScreenHeight == 160 \* screen height of the player's runs
PlayerSpriteHeight == 75  \* height of the player's sprite, taken from its texture
PlayerDeltaTime == 6      \* timestep of the runs that damage and destroy the player
MaxInFlight == 1          \* projectiles in flight when shoot() is called directly
NumKeys == 3              \* keys of the keyboard
MaxShooters == 2          \* enemies whose projectile reaches the player in one pass
ScoreHorizon == 174       \* deltaTime delivered to the scene whose enemy leaves the screen
ArenaHorizon == 72        \* deltaTime delivered to the scene of the power-ups
ShotsDeltaTime == 4       \* the shorter timestep of the runs that follow the projectiles

NULL == 0
DeltaTimes == 1..MaxDeltaTime
StateNames == 1..NumStateNames
Objects == 1..MaxObjects

----------------------------------------------------------------------------
(* Sequence helpers *)

Range(s) == {s[i] : i \in 1..Len(s)}

NoDup(s) == \A i, j \in 1..Len(s) : i # j => s[i] # s[j]

Count(s, x) == Cardinality({i \in 1..Len(s) : s[i] = x})

\* Array.indexOf: first index holding x, 0 when absent
IndexOf(s, x) ==
  IF x \in Range(s) THEN CHOOSE i \in 1..Len(s) : s[i] = x /\ \A j \in 1..(i-1) : s[j] # x
  ELSE 0

\* Array.splice(index, 1)
RemoveAt(s, i) == [k \in 1..(Len(s)-1) |-> IF k < i THEN s[k] ELSE s[k+1]]

----------------------------------------------------------------------------
(* StateMachine *)

HasState_Always(stateName) == TRUE

\* this.states.has(stateName)
HasState(stateName) == stateName \in sm_states

\* this.states.get(stateName): undefined for a name that is not a key
StatesGet(stateName) == IF stateName \in sm_states THEN stateName ELSE NULL

Call(cb, state, cur) == [cb |-> cb, state |-> state, cur |-> cur]

SetStateCalls_EnterBeforeSwap(old, new) ==
  <<Call("enter", new, old)>>
    \o (IF old # NULL THEN <<Call("exit", old, new)>> ELSE <<>>)

\* the callbacks of one transition, each with the currentState it observes
SetStateCalls(old, new) ==
  (IF old # NULL THEN <<Call("exit", old, old)>> ELSE <<>>)
    \o <<Call("enter", new, new)>>

AddState(name) ==
  /\ sm_states' = sm_states \cup {name}
  /\ sm_calls' = <<>>
  /\ sm_lastOp' = [op |-> "addState", name |-> name, prev |-> sm_current,
                   registered |-> name \in sm_states]
  /\ UNCHANGED <<sm_current>>
  /\ FrameSM

SetState(stateName) ==
  /\ sm_lastOp' = [op |-> "setState", name |-> stateName, prev |-> sm_current,
                   registered |-> stateName \in sm_states]
  /\ IF ~HasState(stateName)
       THEN /\ sm_calls' = <<>>
            /\ UNCHANGED <<sm_current>>
       ELSE /\ sm_calls' = SetStateCalls(sm_current, StatesGet(stateName))
            /\ sm_current' = StatesGet(stateName)
  /\ UNCHANGED <<sm_states>>
  /\ FrameSM

SMUpdate ==
  /\ sm_calls' = IF sm_current # NULL
                   THEN <<Call("update", sm_current, sm_current)>>
                   ELSE <<>>
  /\ sm_lastOp' = [op |-> "update", name |-> NULL, prev |-> sm_current,
                   registered |-> FALSE]
  /\ UNCHANGED <<sm_states, sm_current>>
  /\ FrameSM

----------------------------------------------------------------------------
(* ObjectPool *)

Pool == [active |-> op_active, inactive |-> op_inactive, flag |-> op_flag,
         created |-> op_created]

\* ObjectPool.release on a pool value
Release(p, obj) ==
  LET index == IndexOf(p.active, obj)
      act == IF index # 0 THEN RemoveAt(p.active, index) ELSE p.active
  IN [p EXCEPT !.active = act,
               !.flag = [p.flag EXCEPT ![obj] = FALSE],
               !.inactive = Append(p.inactive, obj)]

\* ObjectPool.get on a pool value: <<pool after, object returned, branch>>
Get(p) ==
  IF Len(p.inactive) > 0
    THEN LET obj == p.inactive[Len(p.inactive)]
         IN <<[p EXCEPT !.inactive = SubSeq(p.inactive, 1, Len(p.inactive) - 1),
                        !.flag = [p.flag EXCEPT ![obj] = TRUE],
                        !.active = Append(p.active, obj)],
              obj, "reuse">>
    ELSE IF op_maxSize > 0 /\ Len(p.active) >= op_maxSize
      THEN LET obj == Head(p.active)
           IN <<[p EXCEPT !.active = Append(Tail(p.active), obj)], obj, "oldest">>
      ELSE LET obj == p.created + 1
           IN <<[p EXCEPT !.created = obj,
                          !.flag = [p.flag EXCEPT ![obj] = TRUE],
                          !.active = Append(p.active, obj)],
                obj, "new">>

\* the first loop of ObjectPool.update: obj.update(deltaTime) on every entry of
\* activeObjects; an object in dying reports isActive() = false afterwards
RECURSIVE UpdateLoop(_, _, _, _, _)
UpdateLoop(list, i, flag, dying, acc) ==
  IF i > Len(list) THEN [flag |-> flag, toRelease |-> acc.toRelease, updates |-> acc.updates]
  ELSE LET obj == list[i]
           f == IF obj \in dying THEN [flag EXCEPT ![obj] = FALSE] ELSE flag
           u == [acc.updates EXCEPT ![obj] = @ + 1]
       IN UpdateLoop(list, i + 1, f, dying,
                     [toRelease |-> IF ~f[obj] THEN Append(acc.toRelease, obj)
                                    ELSE acc.toRelease,
                      updates |-> u])

\* the second loop of ObjectPool.update
RECURSIVE ReleaseAllOf(_, _, _)
ReleaseAllOf(p, list, i) ==
  IF i > Len(list) THEN p ELSE ReleaseAllOf(Release(p, list[i]), list, i + 1)

PoolSnapshot == [active |-> op_active, inactive |-> op_inactive, flag |-> op_flag]

SetPool(p) ==
  /\ op_active' = p.active
  /\ op_inactive' = p.inactive
  /\ op_flag' = p.flag
  /\ op_created' = p.created

PoolGet ==
  LET r == Get(Pool) IN
  /\ r[3] = "new" => op_created < MaxObjects
  /\ Len(r[1].active) <= MaxListLen
  /\ SetPool(r[1])
  /\ op_last' = [op |-> "get", obj |-> r[2], branch |-> r[3], pre |-> PoolSnapshot,
                 updates |-> [o \in Objects |-> 0]]
  /\ UNCHANGED <<op_maxSize>>
  /\ FramePool

PoolRelease(obj) ==
  /\ obj <= op_created
  /\ Len(op_inactive) < MaxListLen
  /\ SetPool(Release(Pool, obj))
  /\ op_last' = [op |-> "release", obj |-> obj, branch |-> "none", pre |-> PoolSnapshot,
                 updates |-> [o \in Objects |-> 0]]
  /\ UNCHANGED <<op_maxSize>>
  /\ FramePool

PoolUpdate(dying) ==
  LET l == UpdateLoop(op_active, 1, op_flag, dying,
                      [toRelease |-> <<>>, updates |-> [o \in Objects |-> 0]])
      p == ReleaseAllOf([Pool EXCEPT !.flag = l.flag], l.toRelease, 1)
  IN
  /\ Len(p.inactive) <= MaxListLen
  /\ SetPool(p)
  /\ op_last' = [op |-> "update", obj |-> NULL, branch |-> "none", pre |-> PoolSnapshot,
                 updates |-> l.updates]
  /\ UNCHANGED <<op_maxSize>>
  /\ FramePool

----------------------------------------------------------------------------
(* Projectile (of an enemy: constructed by EnemyShip.shoot, no pool) *)

ScreenHeight == 800            \* GameScene.screenHeight
OutOfBoundsMargin == 50        \* Projectile.isOutOfBounds
ExplosionTimeTenths == 2       \* ProjectileExplodingState.explosionTime = 0.2
EnemyProjectileDamage == 25    \* EnemyShip.shoot: damage
EnemyProjectileVelocityY == 5  \* EnemyShip.shoot: velocityY

\* enter() of the state the projectile has just been switched to
ProjEnter(p) ==
  CASE p.state = "active"    -> [p EXCEPT !.active = TRUE]
    [] p.state = "exploding" -> [p EXCEPT !.explosionTimer = 0, !.active = FALSE]
    [] p.state = "inactive"  -> [p EXCEPT !.active = FALSE]

\* stateMachine.setState on a projectile (every exit() of a projectile state
\* is empty); the machine re-enters a state that is already current
ProjSetState(p, name) == ProjEnter([p EXCEPT !.state = name])

\* new Projectile(...): Entity sets active, initializeStates enters Inactive
NewProjectile(y, screenHeight) ==
  ProjSetState([state |-> "none", active |-> TRUE, y |-> y, explosionTimer |-> 0,
                velocityY |-> EnemyProjectileVelocityY,
                screenHeight |-> screenHeight], "inactive")

ProjFire(p, y) == ProjSetState([p EXCEPT !.y = y], "active")

ProjIsOutOfBounds(p) ==
  p.y < -OutOfBoundsMargin \/ p.y > p.screenHeight + OutOfBoundsMargin

ProjOnCollision(p) == ProjSetState(p, "exploding")

ProjUpdate_ExplodeAtEdge(p, dt) ==
  CASE p.state = "active" ->
         LET q == [p EXCEPT !.y = @ + p.velocityY * dt]
         IN IF ProjIsOutOfBounds(q) THEN ProjSetState(q, "exploding") ELSE q
    [] p.state = "exploding" ->
         LET q == [p EXCEPT !.explosionTimer = @ + dt]
         IN IF 10 * q.explosionTimer >= ExplosionTimeTenths
              THEN ProjSetState(q, "inactive") ELSE q
    [] OTHER -> p

\* Entity.update on a projectile: the current state's update
ProjUpdate(p, dt) ==
  CASE p.state = "active" ->
         LET q == [p EXCEPT !.y = @ + p.velocityY * dt]
         IN IF ProjIsOutOfBounds(q) THEN ProjSetState(q, "inactive") ELSE q
    [] p.state = "exploding" ->
         LET q == [p EXCEPT !.explosionTimer = @ + dt]
         IN IF 10 * q.explosionTimer >= ExplosionTimeTenths
              THEN ProjSetState(q, "inactive") ELSE q
    [] OTHER -> p

----------------------------------------------------------------------------
(* EnemyShip.  Times of the shoot cooldown are in 1/100 ms, state timers in  *)
(* deltaTime units compared against tenths, positions in pixels.  The        *)
(* horizontal motion of move() changes x only and is left out.  timeouts     *)
(* holds the time left (1/100 ms) of every pending setTimeout callback.      *)

EnemyMaxHealth == 100          \* EnemyShip.health
MaxActiveShots == 3            \* EnemyShip.shoot: activeProjectiles.length >= 3
MsPerTickHundredths == 1667    \* EnemyShip.update: deltaTime * 16.67
MinShootCooldown == 50000      \* EnemyShip constructor: 500 ms
ShootingTimeTenths == 3        \* EnemyShootingState.shootingTime = 0.3
DamagedTimeTenths == 2         \* EnemyDamagedState.damagedTime = 0.2
IdleTimeout == 50000           \* EnemyIdleState.update: setTimeout(..., 500)
EstimatedEnemyHeight == 45     \* GameScene.spawnEnemy: rendered sprite height
EnemyOffScreenMargin == 50     \* EnemyShip.update: y > screenHeight + 50
SceneOffScreenMargin == 100    \* GameScene.updateEntities: y > screenHeight + 100
PlayerDamage == 50             \* PlayerShip.damage

\* the amounts offered to a call of takeDamage(amount)
DamageAmounts == {40, 50}

\* Entity.setActive / EnemyShip.setActive(false)
EnemySetInactive(e) == [e EXCEPT !.active = FALSE]

EnemyIsDestroyed(e) == e.health <= 0

\* enter() of the state the enemy has just been switched to
EnemyEnter(e) ==
  CASE e.state = "shooting"  -> [e EXCEPT !.shootingTimer = 0]
    [] e.state = "damaged"   -> [e EXCEPT !.damagedTimer = 0, !.damagedVisual = TRUE]
    [] e.state = "destroyed" -> EnemySetInactive([e EXCEPT !.destroyedTimer = 0])
    [] OTHER -> e

\* stateMachine.setState on an enemy (every exit() of an enemy state is empty)
EnemySetState(e, name) == EnemyEnter([e EXCEPT !.state = name])

\* the fields of a new EnemyShip, before initializeStates sets its state
EnemyFields(y, verticalSpeed, shootCooldown, screenHeight) ==
  [state |-> "none", active |-> TRUE, health |-> EnemyMaxHealth,
   y |-> y, verticalSpeed |-> verticalSpeed,
   shootCooldown |-> shootCooldown, timeSinceLastShot |-> 0,
   activeProjectiles |-> <<>>, screenHeight |-> screenHeight,
   shootingTimer |-> 0, damagedTimer |-> 0, destroyedTimer |-> 0,
   damagedVisual |-> FALSE, timeouts |-> <<>>,
   sinceShot |-> -1, lastGap |-> -1]

NewEnemy_StartIdle(y, verticalSpeed, shootCooldown, screenHeight) ==
  EnemySetState(EnemyFields(y, verticalSpeed, shootCooldown, screenHeight), "idle")

\* new EnemyShip(x, y, type, screenWidth, screenHeight) followed by the
\* scene's setVerticalSpeed; initializeStates enters Moving
NewEnemy(y, verticalSpeed, shootCooldown, screenHeight) ==
  EnemySetState(EnemyFields(y, verticalSpeed, shootCooldown, screenHeight), "moving")

ShootBlocked_NoCap(e) == ~e.active

\* the guard of EnemyShip.shoot: inactive, or already at the cap
ShootBlocked(e) == ~e.active \/ Len(e.activeProjectiles) >= MaxActiveShots

\* EnemyShip.shoot; sinceShot/lastGap observe the deltaTime between two shots
EnemyShoot(e) ==
  IF ShootBlocked(e) THEN e
  ELSE LET projectileY == e.y + (EstimatedEnemyHeight \div 2)
           projectile == ProjFire(NewProjectile(projectileY, e.screenHeight), projectileY)
       IN EnemySetState([e EXCEPT !.activeProjectiles = Append(@, projectile),
                                  !.lastGap = e.sinceShot,
                                  !.sinceShot = 0], "shooting")

EnemyTakeDamage_NoDestroy(e, amount) ==
  IF e.health <= 0 THEN e
  ELSE EnemySetState([e EXCEPT !.health = @ - amount], "damaged")

\* EnemyShip.takeDamage
EnemyTakeDamage(e, amount) ==
  IF e.health <= 0 THEN e
  ELSE LET d == EnemySetState([e EXCEPT !.health = @ - amount], "damaged")
       IN IF d.health <= 0 THEN EnemySetState(d, "destroyed") ELSE d

\* the update() of the enemy's current state
EnemyStateUpdate(e, dt) ==
  CASE e.state = "idle" -> [e EXCEPT !.timeouts = Append(@, IdleTimeout)]
    [] e.state = "moving" -> [e EXCEPT !.y = @ + e.verticalSpeed * dt]
    [] e.state = "shooting" ->
         LET t == [e EXCEPT !.shootingTimer = @ + dt]
         IN IF 10 * t.shootingTimer >= ShootingTimeTenths
              THEN EnemySetState(t, "moving") ELSE t
    [] e.state = "damaged" ->
         LET t == [e EXCEPT !.damagedTimer = @ + dt]
         IN IF 10 * t.damagedTimer >= DamagedTimeTenths
              THEN IF EnemyIsDestroyed(t)
                     THEN EnemySetState(t, "destroyed")
                     ELSE [EnemySetState(t, "moving") EXCEPT !.damagedVisual = FALSE]
              ELSE t
    [] e.state = "destroyed" -> [e EXCEPT !.destroyedTimer = @ + dt]
    [] OTHER -> e

CooldownOver_Half(e) == 2 * e.timeSinceLastShot >= e.shootCooldown

\* has the shoot cooldown run out?
CooldownOver(e) == e.timeSinceLastShot >= e.shootCooldown

\* the projectile loop of EnemyShip.update: update each tracked projectile and
\* drop those that are no longer active
UpdateProjectiles(list, dt) ==
  LET upd == [i \in 1..Len(list) |-> ProjUpdate(list[i], dt)]
  IN SelectSeq(upd, LAMBDA q : q.active)

\* EnemyShip.update; the result also reports what its shoot() call saw and did
EnemyUpdate(e, dt) ==
  LET e1 == EnemyStateUpdate(e, dt)
      e2 == [e1 EXCEPT !.timeSinceLastShot = @ + dt * MsPerTickHundredths,
                       !.sinceShot = IF @ < 0 THEN @ ELSE @ + dt]
      try == e2.active /\ CooldownOver(e2)
      e3 == IF try THEN [EnemyShoot(e2) EXCEPT !.timeSinceLastShot = 0] ELSE e2
      e4 == [e3 EXCEPT !.activeProjectiles = UpdateProjectiles(@, dt)]
      e5 == IF e4.active /\ e4.y > e4.screenHeight + EnemyOffScreenMargin
              THEN EnemySetInactive(e4) ELSE e4
  IN [e |-> e5, shootCalled |-> try,
      preLen |-> Len(e2.activeProjectiles), preActive |-> e2.active,
      fired |-> Len(e3.activeProjectiles) - Len(e2.activeProjectiles),
      sameList |-> e3.activeProjectiles = e2.activeProjectiles,
      sameState |-> e3.state = e2.state]

\* EnemyShip.destroy: the tracked projectiles are destroyed with the enemy
EnemyDestroy(e) == [e EXCEPT !.activeProjectiles = <<>>, !.active = FALSE]

\* the setTimeout callbacks of EnemyIdleState.update that fell due in the
\* time of one frame (deltaTime * 16.67 ms): each calls setState(MOVING),
\* whatever state the enemy is in by then
RunTimeouts(e, dt) ==
  LET left == [i \in 1..Len(e.timeouts) |-> e.timeouts[i] - dt * MsPerTickHundredths]
      pending == [e EXCEPT !.timeouts = SelectSeq(left, LAMBDA t : t > 0)]
  IN IF \E i \in 1..Len(left) : left[i] <= 0
       THEN EnemySetState(pending, "moving") ELSE pending

\* one enemy's turn in the loop of GameScene.updateEntities, after the
\* timeouts that fell due since the last frame
SceneUpdateEnemy(e, dt) ==
  LET r == EnemyUpdate(RunTimeouts(e, dt), dt)
      a == IF r.e.y > r.e.screenHeight + SceneOffScreenMargin /\ r.e.active
             THEN EnemySetInactive(r.e) ELSE r.e
  IN [r EXCEPT !.e = IF ~a.active THEN EnemyDestroy(a) ELSE a] @@ [removed |-> ~a.active]

\* the last enemy operation: what its shoot() call saw and did, and the
\* enemy's health and active flag before the operation
LastEnemyOp(op, amount, r) ==
  [op |-> op, shootCalled |-> r.shootCalled, preLen |-> r.preLen,
   preActive |-> r.preActive, fired |-> r.fired, sameList |-> r.sameList,
   sameState |-> r.sameState,
   amount |-> amount, preHealth |-> enemy.health, wasActive |-> enemy.active]

NoShoot == [shootCalled |-> FALSE, preLen |-> 0, preActive |-> FALSE, fired |-> 0,
            sameList |-> TRUE, sameState |-> TRUE]

\* the scene's tick reaches the enemy
EnemyTick ==
  LET r == SceneUpdateEnemy(enemy, deltaTime) IN
  /\ ~en_removed
  /\ en_time < en_horizon
  /\ en_time' = en_time + deltaTime
  /\ enemy' = r.e
  /\ en_removed' = r.removed
  /\ UNCHANGED <<en_horizon>>
  /\ en_last' = LastEnemyOp("update", 0, r)
  /\ FrameEnemy

\* GameScene.checkCollisions: a player projectile overlaps the active enemy
EnemyHit ==
  /\ ~en_removed /\ enemy.active
  /\ enemy' = EnemyTakeDamage(enemy, PlayerDamage)
  /\ en_last' = LastEnemyOp("takeDamage", PlayerDamage, NoShoot)
  /\ UNCHANGED <<en_removed, en_time, en_horizon>>
  /\ FrameEnemy

\* GameScene.checkCollisions: projectile j of the active enemy overlaps the player
EnemyProjectileHit(j) ==
  /\ ~en_removed /\ enemy.active
  /\ j \in 1..Len(enemy.activeProjectiles)
  /\ enemy.activeProjectiles[j].active
  /\ enemy' = [enemy EXCEPT !.activeProjectiles[j] = ProjOnCollision(@)]
  /\ en_last' = LastEnemyOp("onCollision", 0, NoShoot)
  /\ UNCHANGED <<en_removed, en_time, en_horizon>>
  /\ FrameEnemy

\* a direct call of the public shoot()
EnemyShootCall ==
  LET e == EnemyShoot(enemy) IN
  /\ ~en_removed
  /\ enemy' = e
  /\ en_last' = LastEnemyOp("shoot", 0,
                   [shootCalled |-> TRUE,
                    preLen |-> Len(enemy.activeProjectiles), preActive |-> enemy.active,
                    fired |-> Len(e.activeProjectiles) - Len(enemy.activeProjectiles),
                    sameList |-> e.activeProjectiles = enemy.activeProjectiles,
                    sameState |-> e.state = enemy.state])
  /\ UNCHANGED <<en_removed, en_time, en_horizon>>
  /\ FrameEnemy

\* a direct call of the public takeDamage(amount)
EnemyTakeDamageCall(amount) ==
  /\ ~en_removed
  /\ enemy' = EnemyTakeDamage(enemy, amount)
  /\ en_last' = LastEnemyOp("takeDamage", amount, NoShoot)
  /\ UNCHANGED <<en_removed, en_time, en_horizon>>
  /\ FrameEnemy

----------------------------------------------------------------------------
(* GameScene.  The spawn timer and interval are in 1/100 of a deltaTime unit. *)
(* The player enters through the overlaps the collision pass finds: which     *)
(* enemy a player projectile overlaps and which enemy's projectile overlaps   *)
(* the player are inputs of the tick.                                         *)

MaxEnemies == 10                  \* GameScene.spawnEnemy: activeEnemies >= 10
InitialSpawnInterval == 300       \* GameScene.enemySpawnInterval = 3
MinSpawnInterval == 150           \* GameScene.minSpawnInterval = 1.5
SpawnIntervalDecreaseRate == 1    \* GameScene.spawnIntervalDecreaseRate = 0.01
SpawnAttempts == 10               \* GameScene.spawnEnemy: attemptsLeft
CollisionRadius == 30             \* GameScene.checkCollisions: distance < 30

Abs(n) == IF n < 0 THEN -n ELSE n

Max(a, b) == IF a >= b THEN a ELSE b

ActiveCount(enemies) == Cardinality({i \in 1..Len(enemies) : enemies[i].active})

\* the enemy loop of GameScene.updateEntities (each enemy's turn is
\* independent of the others, inactive enemies are destroyed and spliced out)
RECURSIVE UpdateEnemies(_, _, _)
UpdateEnemies(list, i, dt) ==
  IF i > Len(list) THEN <<>>
  ELSE LET r == SceneUpdateEnemy(list[i], dt)
       IN (IF r.removed THEN <<>> ELSE <<r.e>>) \o UpdateEnemies(list, i + 1, dt)

UpdateEntities(sc, dt) == [sc EXCEPT !.enemies = UpdateEnemies(@, 1, dt)]

\* a player projectile is active only within the out-of-bounds margin, so it
\* can be within the collision radius of an active enemy only below this line
PlayerProjectileCanReach(e) ==
  e.active /\ e.y > -OutOfBoundsMargin - CollisionRadius

\* the player stays on the screen, so an enemy projectile can be within the
\* collision radius of the player only below this line
CanReachPlayer(p) == p.active /\ p.y > -CollisionRadius

CheckCollisions_HitsInactive(sc, hit, shotAt, shotJ) ==
  LET s1 == IF hit = 0 THEN sc
            ELSE [sc EXCEPT !.enemies[hit] = EnemyTakeDamage(@, PlayerDamage)]
  IN IF shotAt = 0 THEN s1
     ELSE [s1 EXCEPT !.enemies[shotAt].activeProjectiles[shotJ] = ProjOnCollision(@)]

\* GameScene.checkCollisions with the overlaps found: a player projectile on
\* enemy hit (0: none), projectile shotJ of enemy shotAt on the player
CheckCollisions(sc, hit, shotAt, shotJ) ==
  LET s1 == IF hit = 0 THEN sc
            ELSE [sc EXCEPT !.enemies[hit] = EnemyTakeDamage(@, PlayerDamage)]
  IN IF shotAt = 0 \/ ~s1.enemies[shotAt].active THEN s1
     ELSE [s1 EXCEPT !.enemies[shotAt].activeProjectiles[shotJ] = ProjOnCollision(@)]

\* the while loop of spawnEnemy: move up while too close to an enemy above
\* the screen (|enemyY - y| < 1.5 * estimatedEnemyHeight)
RECURSIVE StaggeredY(_, _, _, _)
StaggeredY(positions, y, attemptsLeft, step) ==
  IF attemptsLeft > 0 /\ \E enemyY \in positions :
                            2 * Abs(enemyY - y) < 3 * EstimatedEnemyHeight
    THEN StaggeredY(positions, y - step, attemptsLeft - 1, step)
    ELSE y

SpawnBlocked_OffByOne(activeEnemies) == activeEnemies > MaxEnemies

\* the guard of GameScene.spawnEnemy
SpawnBlocked(activeEnemies) == activeEnemies >= MaxEnemies

\* activeEnemyPositions of spawnEnemy: the y of every active enemy that is
\* still above the screen
ActiveEnemyPositions(sc) ==
  {sc.enemies[i].y : i \in {k \in 1..Len(sc.enemies) :
                              sc.enemies[k].active /\ sc.enemies[k].y < 0}}

\* GameScene.spawnEnemy with the random numbers drawn
SpawnEnemy(sc, y0, step, verticalSpeed, shootCooldown) ==
  IF SpawnBlocked(ActiveCount(sc.enemies)) THEN sc
  ELSE LET positions == ActiveEnemyPositions(sc)
           y == StaggeredY(positions, y0, SpawnAttempts, step)
       IN [sc EXCEPT !.enemies =
             Append(@, NewEnemy(y, verticalSpeed, shootCooldown, ScreenHeight))]

\* GameScene.updateEnemySpawning
UpdateEnemySpawning(sc, dt, y0, step, verticalSpeed, shootCooldown) ==
  LET s1 == [sc EXCEPT !.enemySpawnTimer = @ + 100 * dt,
                       !.enemySpawnInterval =
                          Max(MinSpawnInterval, @ - SpawnIntervalDecreaseRate * dt)]
  IN IF s1.enemySpawnTimer >= s1.enemySpawnInterval
       THEN [SpawnEnemy(s1, y0, step, verticalSpeed, shootCooldown)
               EXCEPT !.enemySpawnTimer = 0]
       ELSE s1

\* GameScene.update while the game is not over
SceneUpdate(hit, shotAt, shotJ, y0, step, verticalSpeed, shootCooldown) ==
  /\ scene.gameTime < SceneHorizon
  /\ sc_collisions + (IF hit = 0 THEN 0 ELSE 1) + (IF shotAt = 0 THEN 0 ELSE 1)
       <= MaxCollisions
  /\ shotAt = 0 => shotJ = 1
  /\ \E s1 \in {UpdateEntities([scene EXCEPT !.gameTime = @ + deltaTime], deltaTime)} :
       /\ hit # 0 =>
            hit \in 1..Len(s1.enemies) /\ PlayerProjectileCanReach(s1.enemies[hit])
       /\ shotAt # 0 =>
            /\ shotAt \in 1..Len(s1.enemies) /\ s1.enemies[shotAt].active
            /\ shotJ \in 1..Len(s1.enemies[shotAt].activeProjectiles)
            /\ CanReachPlayer(s1.enemies[shotAt].activeProjectiles[shotJ])
       /\ \E s2 \in {CheckCollisions(s1, hit, shotAt, shotJ)} :
            \E s3 \in {UpdateEnemySpawning(s2, deltaTime, y0, step, verticalSpeed,
                                            shootCooldown)} :
              /\ scene' = s3
              /\ sc_last' = [spawnAttempt |-> s3.enemySpawnTimer = 0,
                             activeBefore |-> ActiveCount(s2.enemies),
                             added |-> Len(s3.enemies) - Len(s2.enemies),
                             above |-> ActiveEnemyPositions(s2),
                             spawnedY |-> IF Len(s3.enemies) > Len(s2.enemies)
                                            THEN s3.enemies[Len(s3.enemies)].y
                                            ELSE 0]
  /\ sc_collisions' = sc_collisions + (IF hit = 0 THEN 0 ELSE 1)
                                     + (IF shotAt = 0 THEN 0 ELSE 1)
  /\ FrameScene

----------------------------------------------------------------------------
(* ProjectilePool (src/src/entities/power-up.ts), as a PlayerShip owns it.   *)
(* A pooled projectile carries an id that stands for the object's identity.  *)

InitialPoolSize == 10            \* PlayerShip constructor: initial pool size
PlayerProjectileVelocityY == -10 \* PlayerShip constructor: velocityY (upward)

\* ProjectilePool.createProjectile
CreateProjectile(id, screenHeight) ==
  [id |-> id] @@
  [NewProjectile(0, screenHeight) EXCEPT !.velocityY = PlayerProjectileVelocityY,
                                         !.active = FALSE]

\* new ProjectilePool(initialSize, ...)
NewProjectilePool(screenHeight) ==
  [active |-> <<>>,
   inactive |-> [i \in 1..InitialPoolSize |-> CreateProjectile(i, screenHeight)],
   created |-> InitialPoolSize,
   screenHeight |-> screenHeight]

GetProjectile_KeepsInactive(pool) ==
  IF Len(pool.inactive) > 0
    THEN LET projectile == pool.inactive[Len(pool.inactive)]
         IN <<[pool EXCEPT !.active = Append(@, projectile)], projectile>>
    ELSE LET projectile == CreateProjectile(pool.created + 1, pool.screenHeight)
         IN <<[pool EXCEPT !.created = @ + 1,
                           !.active = Append(@, projectile)], projectile>>

\* ProjectilePool.getProjectile: <<pool, projectile>>
GetProjectile(pool) ==
  IF Len(pool.inactive) > 0
    THEN LET projectile == pool.inactive[Len(pool.inactive)]
         IN <<[pool EXCEPT !.inactive = SubSeq(@, 1, Len(@) - 1),
                           !.active = Append(@, projectile)], projectile>>
    ELSE LET projectile == CreateProjectile(pool.created + 1, pool.screenHeight)
         IN <<[pool EXCEPT !.created = @ + 1,
                           !.active = Append(@, projectile)], projectile>>

ReturnProjectile_NoAppend(pool, projectile) ==
  [pool EXCEPT !.active = SelectSeq(@, LAMBDA q : q.id # projectile.id)]

\* ProjectilePool.returnProjectile, with the projectile in the state it has
\* when ProjectileInactiveState.enter calls returnToPool
ReturnProjectile(pool, projectile) ==
  [pool EXCEPT
     !.active = SelectSeq(@, LAMBDA q : q.id # projectile.id),
     !.inactive = IF \E k \in 1..Len(@) : @[k].id = projectile.id
                    THEN @ ELSE Append(@, projectile)]

\* a state change of the pooled projectile at index i of the active list;
\* entering Inactive returns it to the pool
StorePooled(pool, i, q) ==
  IF q.state = "inactive" THEN ReturnProjectile(pool, q)
  ELSE [pool EXCEPT !.active[i] = q]

\* ProjectilePool.update: the backward loop over the active list
RECURSIVE ProjectilePoolUpdate(_, _, _)
ProjectilePoolUpdate(pool, i, dt) ==
  IF i = 0 THEN pool
  ELSE ProjectilePoolUpdate(StorePooled(pool, i, ProjUpdate(pool.active[i], dt)), i - 1, dt)

\* ProjectilePool.deactivateAll
RECURSIVE DeactivateAll(_, _)
DeactivateAll(pool, list) ==
  IF list = <<>> THEN [pool EXCEPT !.active = <<>>]
  ELSE DeactivateAll(ReturnProjectile(pool, ProjSetState(Head(list), "inactive")),
                     Tail(list))

----------------------------------------------------------------------------
(* PlayerShip (src/src/entities/player-ship.ts).  Timers are in deltaTime    *)
(* units.  Of the movement keys only ArrowUp is offered, so x is constant    *)
(* and left out; sprite visibility (the blinking of Invulnerable) is         *)
(* render-only and left out.                                                 *)

PlayerMaxHealth == 100        \* PlayerShip.maxHealth
PlayerSpeed == 3              \* PlayerShip.speed
PlayerShootCooldown == 10     \* PlayerShip.shootCooldown
InitialLives == 3             \* PlayerShip.lives
MaxShieldHealth == 100        \* PlayerShip.maxShieldHealth
DamageTime == 30              \* PlayerDamagedState.damageTime
DestroyTime == 120            \* PlayerDestroyedState.minDestroyTime
InvulnerableDuration == 180   \* PlayerInvulnerableState.invulnerableDuration
SpawnOffset == 120            \* spawn point: y = screenHeight - 120

SpawnY(screenHeight) == screenHeight - SpawnOffset

\* PlayerShip.shoot; shotsFired observes the shoot() calls of one operation
PlayerShoot(p) ==
  LET g == GetProjectile(p.pool)
      i == Len(g[1].active)
  IN [p EXCEPT !.pool = [g[1] EXCEPT !.active[i] = ProjFire(g[2], p.y - (p.height \div 2))],
               !.shotsFired = @ + 1]

PlayerExit_KeepVisual(p) ==
  CASE p.state = "destroyed" -> [p EXCEPT !.active = TRUE]
    [] OTHER -> p

\* exit() of the player's current state
PlayerExit(p) ==
  CASE p.state = "damaged"   -> [p EXCEPT !.damageVisual = FALSE]
    [] p.state = "destroyed" -> [p EXCEPT !.active = TRUE]
    [] OTHER -> p

PlayerEnter_StaysActive(p) ==
  CASE p.state = "shooting"     -> [PlayerShoot(p) EXCEPT !.shootTimer = 0]
    [] p.state = "damaged"      -> [p EXCEPT !.damageVisual = TRUE, !.damageTimer = 0]
    [] p.state = "destroyed"    -> [p EXCEPT !.destroyTimer = 0]
    [] p.state = "invulnerable" -> [p EXCEPT !.invulnerableTimer = 0, !.active = TRUE]
    [] OTHER -> p

\* enter() of the state the player has just been switched to
PlayerEnter(p) ==
  CASE p.state = "shooting"     -> [PlayerShoot(p) EXCEPT !.shootTimer = 0]
    [] p.state = "damaged"      -> [p EXCEPT !.damageVisual = TRUE, !.damageTimer = 0]
    [] p.state = "destroyed"    -> [p EXCEPT !.destroyTimer = 0, !.active = FALSE]
    [] p.state = "invulnerable" -> [p EXCEPT !.invulnerableTimer = 0, !.active = TRUE]
    [] OTHER -> p

\* stateMachine.setState on the player: exit of the current state, swap, enter
PlayerSetState(p, name) == PlayerEnter([PlayerExit(p) EXCEPT !.state = name])

\* PlayerShip.gameOver: the scene's callback sets GameScene.isGameOver
PlayerGameOver(p) == [p EXCEPT !.gameOverCalls = @ + 1]

\* new PlayerShip(x, screenHeight - 120, screenWidth, screenHeight)
NewPlayer(screenHeight, height) ==
  PlayerSetState(
    [state |-> "none", active |-> TRUE, health |-> PlayerMaxHealth, shieldHealth |-> 0,
     lives |-> InitialLives, y |-> SpawnY(screenHeight),
     screenHeight |-> screenHeight, height |-> height,
     shootTimer |-> 0, damageTimer |-> 0, destroyTimer |-> 0, invulnerableTimer |-> 0,
     damageVisual |-> FALSE, pool |-> NewProjectilePool(screenHeight),
     score |-> 0, gameOverCalls |-> 0, shotsFired |-> 0], "idle")

\* is takeDamage a no-op in this state?
DamageIgnored_DestroyedOnly(p) == p.state = "destroyed"

DamageIgnored(p) == p.state = "destroyed" \/ p.state = "invulnerable"

\* the shield branch of takeDamage
ShieldAbsorb_Unclamped(p, amount) == [p EXCEPT !.shieldHealth = @ - amount]

ShieldAbsorb_Overflow(p, amount) ==
  IF p.shieldHealth >= amount THEN [p EXCEPT !.shieldHealth = @ - amount]
  ELSE [p EXCEPT !.shieldHealth = 0, !.health = @ - (amount - p.shieldHealth)]

ShieldAbsorb(p, amount) ==
  LET s == p.shieldHealth - amount
  IN [p EXCEPT !.shieldHealth = IF s <= 0 THEN 0 ELSE s]

\* the health branch of takeDamage
HealthDamage_Unclamped(p, amount) ==
  LET h == p.health - amount
  IN IF h <= 0 THEN PlayerSetState([p EXCEPT !.health = h], "destroyed")
     ELSE PlayerSetState([p EXCEPT !.health = h], "damaged")

HealthDamage(p, amount) ==
  LET h == p.health - amount
  IN IF h <= 0 THEN PlayerSetState([p EXCEPT !.health = 0], "destroyed")
     ELSE PlayerSetState([p EXCEPT !.health = h], "damaged")

\* PlayerShip.takeDamage
PlayerTakeDamage(p, amount) ==
  IF DamageIgnored(p) THEN p
  ELSE IF p.shieldHealth > 0 THEN ShieldAbsorb(p, amount)
  ELSE HealthDamage(p, amount)

PlayerAddShield_Stacks(p) == [p EXCEPT !.shieldHealth = @ + MaxShieldHealth]

\* PlayerShip.addShield
PlayerAddShield(p) == [p EXCEPT !.shieldHealth = MaxShieldHealth]

\* PlayerShip.addScore
PlayerAddScore(p, points) == [p EXCEPT !.score = @ + points]

\* PlayerShip.destroy
PlayerDestroy(p) ==
  LET d == PlayerSetState([p EXCEPT !.lives = @ - 1], "destroyed")
  IN IF d.lives <= 0 THEN PlayerGameOver(d) ELSE d

RespawnAllowed_TwoSpare(p) == p.lives > 2

RespawnAllowed(p) == p.lives > 0

\* PlayerShip.onRespawn
PlayerOnRespawn(p) ==
  IF RespawnAllowed(p)
    THEN PlayerSetState([p EXCEPT !.health = PlayerMaxHealth,
                                  !.y = SpawnY(p.screenHeight),
                                  !.pool = DeactivateAll(@, @.active),
                                  !.active = TRUE], "invulnerable")
    ELSE p

\* PlayerShip.move with dx = 0
PlayerMove(p, dy) == [p EXCEPT !.y = @ + dy]

\* has the shoot timer of Shooting reached the cooldown?
ShootTimerOver_Every(p) == TRUE

ShootTimerOver(p) == p.shootTimer >= PlayerShootCooldown

\* the update() of the player's current state; fire and up are the keys
\* InputManager reports as pressed (space, ArrowUp)
PlayerStateUpdate(p, dt, fire, up) ==
  LET dy == IF up THEN -(PlayerSpeed * dt) ELSE 0 IN
  CASE p.state = "idle" ->
         IF up THEN PlayerSetState(p, "moving")
         ELSE IF fire THEN PlayerSetState(p, "shooting")
         ELSE p
    [] p.state = "moving" ->
         IF dy = 0 THEN PlayerSetState(p, "idle")
         ELSE LET m == PlayerMove(p, dy)
              IN IF fire THEN PlayerSetState(m, "shooting") ELSE m
    [] p.state = "shooting" ->
         LET t == [p EXCEPT !.shootTimer = @ + dt]
             m == IF dy # 0 THEN PlayerMove(t, dy) ELSE t
         IN IF fire /\ ShootTimerOver(m) THEN [PlayerShoot(m) EXCEPT !.shootTimer = 0]
            ELSE IF ~fire
              THEN PlayerSetState(m, IF dy # 0 THEN "moving" ELSE "idle")
            ELSE m
    [] p.state = "damaged" ->
         LET t == [p EXCEPT !.damageTimer = @ + dt]
         IN IF t.damageTimer >= DamageTime THEN PlayerSetState(t, "idle") ELSE t
    [] p.state = "destroyed" ->
         LET t == [p EXCEPT !.destroyTimer = @ + dt]
         IN IF t.destroyTimer >= DestroyTime THEN PlayerOnRespawn(t) ELSE t
    [] p.state = "invulnerable" ->
         LET t == [p EXCEPT !.invulnerableTimer = @ + dt]
             m == IF dy # 0 THEN PlayerMove(t, dy) ELSE t
             s == IF fire THEN PlayerShoot(m) ELSE m
         IN IF s.invulnerableTimer >= InvulnerableDuration
              THEN PlayerSetState(s, IF fire THEN "shooting"
                                     ELSE IF dy # 0 THEN "moving" ELSE "idle")
              ELSE s
    [] OTHER -> p

\* PlayerShip.constrainToScreen (y only)
ConstrainToScreen(p) ==
  LET halfHeight == p.height \div 2
  IN IF p.y < halfHeight THEN [p EXCEPT !.y = halfHeight]
     ELSE IF p.y > p.screenHeight - halfHeight
       THEN [p EXCEPT !.y = p.screenHeight - halfHeight]
     ELSE p

PlayerUpdate_SkipInactive(p, dt, fire, up) ==
  IF ~p.active THEN p
  ELSE LET c == ConstrainToScreen(PlayerStateUpdate(p, dt, fire, up))
       IN [c EXCEPT !.pool = ProjectilePoolUpdate(@, Len(@.active), dt)]

\* PlayerShip.update: Entity.update ticks the state machine whatever the
\* active flag, the rest runs only while the player is active
PlayerUpdate(p, dt, fire, up) ==
  LET s == PlayerStateUpdate(p, dt, fire, up)
  IN IF s.active
       THEN LET c == ConstrainToScreen(s)
            IN [c EXCEPT !.pool = ProjectilePoolUpdate(@, Len(@.active), dt)]
       ELSE s

\* what the claims observe of the player before an operation
PlayerView(p) ==
  [state |-> p.state, active |-> p.active, health |-> p.health,
   shieldHealth |-> p.shieldHealth, lives |-> p.lives, y |-> p.y,
   destroyTimer |-> p.destroyTimer, gameOverCalls |-> p.gameOverCalls]

\* the last player operation.  hold observes a window of ticks with fire held
\* that began in Idle: the deltaTime it has lasted (-1 outside a window), the
\* shoot() calls in it and whether ArrowUp was pressed in it; the window ends
\* once it has lasted 3 * shootCooldown.  lastLife observes that a hit
\* destroyed the player on its last life.  waited observes the deltaTime the
\* player's ticks have delivered while a projectile of the pool's active
\* list has stayed in Exploding.
NoHold == [time |-> -1, shots |-> 0, moved |-> FALSE]

LastPlayerOp(op, amount, hold, lastLife) ==
  [op |-> op, amount |-> amount, pre |-> PlayerView(player),
   hold |-> hold, lastLife |-> lastLife, waited |-> pl_last.waited]

AnyExploding(pool) ==
  \E k \in 1..Len(pool.active) : pool.active[k].state = "exploding"

\* GameScene.update while the game is not over: the tick reaches the player
PlayerTick(fire, up) ==
  LET q == PlayerUpdate([player EXCEPT !.shotsFired = 0], deltaTime, fire, up)
      h == pl_last.hold
      started == h.time < 0 /\ player.state = "idle" /\ fire
      continuing == h.time >= 0 /\ h.time < 3 * PlayerShootCooldown /\ fire
  IN /\ player.gameOverCalls = 0
     /\ player' = q
     /\ pl_last' = [LastPlayerOp("update", 0,
                      IF started
                        THEN [time |-> deltaTime, shots |-> q.shotsFired, moved |-> up]
                      ELSE IF continuing
                        THEN [time |-> h.time + deltaTime,
                              shots |-> h.shots + q.shotsFired,
                              moved |-> h.moved \/ up]
                      ELSE NoHold,
                      pl_last.lastLife)
                     EXCEPT !.waited = IF AnyExploding(q.pool) THEN @ + deltaTime ELSE 0]
     /\ FramePlayer

\* a call of takeDamage(amount)
PlayerTakeDamageCall(amount) ==
  LET q == PlayerTakeDamage([player EXCEPT !.shotsFired = 0], amount)
  IN /\ player.gameOverCalls = 0
     /\ player' = q
     /\ pl_last' = LastPlayerOp("takeDamage", amount, NoHold,
                      pl_last.lastLife \/ (player.lives = 1 /\ player.state # "destroyed"
                                           /\ q.state = "destroyed"))
     /\ FramePlayer

\* a call of addShield()
PlayerAddShieldCall ==
  /\ player.gameOverCalls = 0
  /\ player' = PlayerAddShield([player EXCEPT !.shotsFired = 0])
  /\ pl_last' = LastPlayerOp("addShield", 0, NoHold, pl_last.lastLife)
  /\ FramePlayer

\* a call of the public destroy()
PlayerDestroyCall ==
  /\ player.gameOverCalls = 0
  /\ player.lives > 0
  /\ player' = PlayerDestroy([player EXCEPT !.shotsFired = 0])
  /\ pl_last' = LastPlayerOp("destroy", 0, NoHold, pl_last.lastLife)
  /\ FramePlayer

\* a direct call of shoot(), which the states of an active player make
PlayerShootCall ==
  /\ player.gameOverCalls = 0 /\ player.active
  /\ Len(player.pool.active) < MaxInFlight
  /\ player' = PlayerShoot([player EXCEPT !.shotsFired = 0])
  /\ pl_last' = LastPlayerOp("shoot", 0, NoHold, pl_last.lastLife)
  /\ FramePlayer

\* GameScene.checkCollisions: projectile j of the active player overlaps an
\* active enemy and receives onCollision(); the operation records its id
PlayerProjectileHit(j) ==
  /\ player.gameOverCalls = 0 /\ player.active
  /\ j \in 1..Len(player.pool.active)
  /\ player.pool.active[j].active
  /\ player' = [player EXCEPT !.shotsFired = 0,
                              !.pool.active[j] = ProjOnCollision(@)]
  /\ pl_last' = LastPlayerOp("onCollision", player.pool.active[j].id, NoHold,
                             pl_last.lastLife)
  /\ FramePlayer

\* a call of the public deactivate() of a pooled projectile, in flight or not
PlayerProjectileDeactivate(id) ==
  /\ player.gameOverCalls = 0
  /\ id \in 1..player.pool.created
  /\ LET all == player.pool.active \o player.pool.inactive
         q == all[CHOOSE k \in 1..Len(all) : all[k].id = id]
     IN player' = [player EXCEPT !.shotsFired = 0,
                                 !.pool = ReturnProjectile(@, ProjSetState(q, "inactive"))]
  /\ pl_last' = LastPlayerOp("deactivate", id, NoHold, pl_last.lastLife)
  /\ FramePlayer

----------------------------------------------------------------------------
(* PowerUp (src/src/entities/power-up.ts).  x is the horizontal distance to *)
(* the player's column, which is constant because of the movement keys only *)
(* ArrowUp is offered; timers are in deltaTime units.                        *)

CollectionTime == 30          \* PowerUpCollectedState.collectionTime
PowerUpOffScreenMargin == 50  \* PowerUpActiveState.update: y > screenHeight + 50
PickupRadius == 40            \* GameScene.checkCollisions: distance < 40
DropChancePercent == 20       \* the drop policy: a 20% chance

\* enter() of the state the power-up has just been switched to
PowerUpEnter(u) ==
  CASE u.state = "collected" -> [u EXCEPT !.collectionTimer = 0]
    [] u.state = "inactive"  -> [u EXCEPT !.active = FALSE]
    [] OTHER -> u

\* stateMachine.setState on a power-up (every exit() of a power-up state is
\* empty)
PowerUpSetState(u, name) == PowerUpEnter([u EXCEPT !.state = name])

\* new PowerUp(x, y, type, fallSpeed, screenHeight); pickups and
\* sinceCollected observe the collisions dispatched on the power-up and the
\* deltaTime delivered to it since the first of them (-1 before)
NewPowerUp(x, y, type, fallSpeed, screenHeight) ==
  PowerUpSetState([state |-> "none", active |-> TRUE, x |-> x, y |-> y,
                   type |-> type, speed |-> fallSpeed,
                   screenHeight |-> screenHeight, collectionTimer |-> 0,
                   pickups |-> 0, sinceCollected |-> -1], "active")

\* PowerUp.move
PowerUpMove(u, dt) == [u EXCEPT !.y = @ + u.speed * dt]

\* has the timer of Collected reached the collection time?
CollectionOver(u) == u.collectionTimer >= CollectionTime

\* PowerUp.update: Entity.update ticks the state machine
PowerUpUpdate(u, dt) ==
  CASE u.state = "active" ->
         LET m == PowerUpMove(u, dt)
         IN IF m.y > m.screenHeight + PowerUpOffScreenMargin
              THEN [m EXCEPT !.active = FALSE] ELSE m
    [] u.state = "collected" ->
         LET t == [u EXCEPT !.collectionTimer = @ + dt]
         IN IF CollectionOver(t)
              THEN PowerUpSetState([t EXCEPT !.active = FALSE], "inactive")
              ELSE t
    [] OTHER -> u

\* PowerUp.onCollected
PowerUpOnCollected(u) == PowerUpSetState(u, "collected")

\* the drop of EnemyDestroyedState.enter, with the number drawn for the roll
\* (a percentage) and the enemy's x: the power-ups handed to the
\* power-up-dropped callback
EnemyDropPowerUp(e, x, roll) ==
  IF roll < DropChancePercent
    THEN <<NewPowerUp(x, e.y, "shield", e.verticalSpeed \div 2, e.screenHeight)>>
    ELSE <<>>

----------------------------------------------------------------------------
(* GameScene (src/unnamed/part_005) as it reaches the player, one enemy and  *)
(* the power-ups.  Which enemies have a projectile within the collision      *)
(* radius of the player is an input of the tick; the overlap of a power-up   *)
(* with the player is computed from their positions.                         *)

AddPowerUp_Twice(powerUps, powerUp) == Append(Append(powerUps, powerUp), powerUp)

\* GameScene.addPowerUp, the scene's power-up-dropped callback
AddPowerUp(powerUps, powerUp) == Append(powerUps, powerUp)

\* the power-up loop of GameScene.updateEntities: update each power-up,
\* destroy and splice out the inactive ones
UpdatePowerUps(list, dt) ==
  LET upd == [i \in 1..Len(list) |->
                [PowerUpUpdate(list[i], dt) EXCEPT
                   !.sinceCollected = IF @ < 0 THEN @ ELSE @ + dt]]
  IN SelectSeq(upd, LAMBDA u : u.active)

\* distance < 40 between a power-up and the player
WithinPickup(u, p) ==
  u.x * u.x + (u.y - p.y) * (u.y - p.y) < PickupRadius * PickupRadius

\* PlayerShip.isInvulnerable
IsInvulnerable(p) == p.state = "invulnerable"

\* one collision the pass has dispatched: the pair takeDamage/onCollision
\* ("shot") or addShield/onCollected ("pickup"), with the active flags the
\* player and the other entity had when it was dispatched
Dispatched(kind, p, otherActive) ==
  [kind |-> kind, playerActive |-> p.active, otherActive |-> otherActive]

\* the enemy-projectile loop of checkCollisions, for n active enemies that
\* each have an active projectile within the collision radius of the player
RECURSIVE EnemyShotsLoop(_, _)
EnemyShotsLoop(st, n) ==
  IF n = 0 THEN st
  ELSE EnemyShotsLoop(
         [st EXCEPT !.player = PlayerTakeDamage(@, EnemyProjectileDamage),
                    !.log = Append(@, Dispatched("shot", st.player, TRUE))],
         n - 1)

\* GameScene.applyPowerUpEffect
ApplyPowerUpEffect(p, u) == IF u.type = "shield" THEN PlayerAddShield(p) ELSE p

\* the power-up loop of checkCollisions, from index i on
RECURSIVE PowerUpLoop(_, _)
PowerUpLoop(st, i) ==
  IF i > Len(st.powerUps) THEN st
  ELSE LET u == st.powerUps[i]
       IN IF u.active /\ WithinPickup(u, st.player)
            THEN PowerUpLoop(
                   [st EXCEPT !.player = ApplyPowerUpEffect(@, u),
                              !.powerUps[i] =
                                 [PowerUpOnCollected(u) EXCEPT
                                    !.pickups = @ + 1,
                                    !.sinceCollected = IF @ < 0 THEN 0 ELSE @],
                              !.log = Append(@, Dispatched("pickup", st.player,
                                                           u.active))],
                   i + 1)
            ELSE PowerUpLoop(st, i + 1)

\* GameScene.checkCollisions on the player and the power-ups; the player does
\* not fire in these runs, so the loop over its projectiles finds none
CheckPlayerCollisions(p, powerUps, shots) ==
  LET st == [player |-> p, powerUps |-> powerUps, log |-> <<>>]
  IN IF ~p.active THEN st
     ELSE IF IsInvulnerable(p) THEN st
     ELSE PowerUpLoop(EnemyShotsLoop(st, shots), 1)

NoDrop == [entered |-> FALSE, roll |-> 0, x |-> 0, y |-> 0, speed |-> 0, before |-> <<>>]

\* GameScene.update while the game is not over: the tick reaches the player,
\* the enemy and the power-ups, then the collision pass runs
ArenaTick(up, shots) ==
  LET r == SceneUpdateEnemy(enemy, deltaTime)
      st == CheckPlayerCollisions(
              PlayerUpdate([player EXCEPT !.shotsFired = 0], deltaTime, FALSE, up),
              UpdatePowerUps(arena.powerUps, deltaTime), shots)
  IN /\ ~arena.isGameOver
     /\ arena.gameTime < arena.horizon
     /\ player' = st.player
     /\ pl_last' = LastPlayerOp("update", 0, NoHold, pl_last.lastLife)
     /\ IF en_removed
          THEN UNCHANGED enVars
          ELSE /\ enemy' = r.e
               /\ en_removed' = r.removed
               /\ en_time' = en_time + deltaTime
               /\ en_last' = LastEnemyOp("update", 0, r)
               /\ UNCHANGED en_horizon
     /\ arena' = [arena EXCEPT !.gameTime = @ + deltaTime, !.powerUps = st.powerUps,
                                !.isGameOver = st.player.lives <= 0]
     /\ ar_last' = [op |-> "update", log |-> st.log, drop |-> NoDrop]
     /\ FrameArena

KillPoints == 100     \* GameScene.checkCollisions: score += 100

ScoresPoints_EveryHit(e) == TRUE

\* does the enemy that has just been hit score points?
ScoresPoints(e) == EnemyIsDestroyed(e)

\* GameScene.checkCollisions: a player projectile overlaps the active enemy,
\* whose x is drawn here; when the hit is fatal the enemy enters Destroyed,
\* the scene's callback receives what it drops and the kill is scored
ArenaEnemyHit(x, roll) ==
  LET q == EnemyTakeDamage(enemy, PlayerDamage)
      entered == enemy.state # "destroyed" /\ q.state = "destroyed"
      dropped == IF entered THEN EnemyDropPowerUp(q, x, roll) ELSE <<>>
      points == IF ScoresPoints(q) THEN KillPoints ELSE 0
  IN /\ ~arena.isGameOver /\ player.active
     /\ ~en_removed /\ enemy.active
     /\ PlayerProjectileCanReach(enemy)
     /\ enemy' = q
     /\ en_last' = LastEnemyOp("takeDamage", PlayerDamage, NoShoot)
     /\ UNCHANGED <<en_removed, en_time, en_horizon>>
     /\ arena' = [arena EXCEPT !.powerUps =
                                  IF dropped = <<>> THEN @ ELSE AddPowerUp(@, dropped[1]),
                                !.score = @ + points]
     /\ ar_last' = [op |-> "hit", log |-> <<>>,
                    drop |-> [entered |-> entered, roll |-> roll, x |-> x,
                              y |-> q.y, speed |-> q.verticalSpeed,
                              before |-> arena.powerUps]]
     /\ player' = PlayerAddScore(player, points)
     /\ UNCHANGED pl_last
     /\ FrameArena

\* GameScene.gameOver, which is also the player's game-over callback
SceneGameOver(ar) == [ar EXCEPT !.isGameOver = TRUE]

\* a call of the public PlayerShip.destroy() during play; the game-over
\* callback it may invoke is GameScene.gameOver
ArenaDestroyCall ==
  LET d == PlayerDestroy([player EXCEPT !.shotsFired = 0])
  IN /\ ~arena.isGameOver
     /\ player.lives > 0
     /\ player' = d
     /\ pl_last' = LastPlayerOp("destroy", 0, NoHold, pl_last.lastLife)
     /\ arena' = IF d.gameOverCalls > player.gameOverCalls
                   THEN SceneGameOver(arena) ELSE arena
     /\ ar_last' = [op |-> "destroy", log |-> <<>>, drop |-> NoDrop]
     /\ UNCHANGED enVars
     /\ FrameArena

\* GameScene.restartGame on the scene, the old player and the enemy: the
\* scene and the player it holds when restartGame returns
RestartGame(ar, p) ==
  LET cleared == [ar EXCEPT !.isGameOver = FALSE, !.gameTime = 0, !.powerUps = <<>>]
      old == PlayerDestroy(p)
  IN [arena |-> IF old.gameOverCalls > p.gameOverCalls
                  THEN SceneGameOver(cleared) ELSE cleared,
      player |-> NewPlayer(p.screenHeight, p.height)]

\* GameScene.update while the game is over: space restarts the game, and the
\* update returns
ArenaGameOverTick(space) ==
  LET r == RestartGame(arena, [player EXCEPT !.shotsFired = 0])
  IN /\ arena.isGameOver
     /\ IF space
          THEN /\ arena' = r.arena
               /\ player' = r.player
               /\ pl_last' = LastPlayerOp("restart", 0, NoHold, FALSE)
               /\ enemy' = EnemyDestroy(enemy)
               /\ en_removed' = TRUE
               /\ UNCHANGED <<en_time, en_horizon, en_last>>
               /\ ar_last' = [op |-> "restart", log |-> <<>>, drop |-> NoDrop]
          ELSE UNCHANGED <<arVars, plVars, enVars>>
     /\ FrameArena

----------------------------------------------------------------------------
(* InputManager and Game.update of the SideQuest framework                   *)
(* (src/sidequest/managers/input-manager.ts, src/sidequest/entities/         *)
(* entity.ts).  keyStates is the Map from the keys seen so far to their      *)
(* KeyState; the mouse state is left out.                                    *)

Keys == 1..NumKeys

NewKeyState == [pressed |-> FALSE, justPressed |-> FALSE, justReleased |-> FALSE]

\* new InputManager()
NewInput == [keyStates |-> <<>>, keysJustPressed |-> {}, keysJustReleased |-> {}]

\* InputManager.isKeyPressed
IsKeyPressed(in, key) ==
  IF key \in DOMAIN in.keyStates THEN in.keyStates[key].pressed ELSE FALSE

\* InputManager.isKeyJustPressed
IsKeyJustPressed(in, key) ==
  IF key \in DOMAIN in.keyStates THEN in.keyStates[key].justPressed ELSE FALSE

\* keyStates with an entry for the key ("Initialize key state if it doesn't
\* exist")
WithKeyState(in, key) ==
  IF key \in DOMAIN in.keyStates THEN in
  ELSE [in EXCEPT !.keyStates =
          [k \in DOMAIN in.keyStates \cup {key} |->
             IF k = key THEN NewKeyState ELSE in.keyStates[k]]]

\* the keydown listener
OnKeyDown(in, key) ==
  IF IsKeyPressed(in, key) THEN in
  ELSE [WithKeyState(in, key) EXCEPT !.keyStates[key].pressed = TRUE,
                                     !.keyStates[key].justPressed = TRUE,
                                     !.keysJustPressed = @ \cup {key}]

\* the keyup listener
OnKeyUp(in, key) ==
  [WithKeyState(in, key) EXCEPT !.keyStates[key].pressed = FALSE,
                                !.keyStates[key].justPressed = FALSE,
                                !.keyStates[key].justReleased = TRUE,
                                !.keysJustReleased = @ \cup {key}]

\* InputManager.resetAllKeys, the blur listener
ResetAllKeys(in) ==
  [in EXCEPT !.keyStates =
               [k \in DOMAIN @ |->
                  IF @[k].pressed
                    THEN [pressed |-> FALSE, justPressed |-> FALSE, justReleased |-> TRUE]
                    ELSE @[k]],
             !.keysJustReleased = @ \cup {k \in DOMAIN in.keyStates : in.keyStates[k].pressed}]

\* InputManager.update: clear the just-pressed and just-released flags
InputUpdate(in) ==
  [in EXCEPT !.keyStates =
               [k \in DOMAIN @ |->
                  [@[k] EXCEPT !.justPressed =
                                  IF k \in in.keysJustPressed THEN FALSE ELSE @,
                               !.justReleased =
                                  IF k \in in.keysJustReleased THEN FALSE ELSE @]],
             !.keysJustPressed = {},
             !.keysJustReleased = {}]

\* the keys isKeyJustPressed reports to a scene update
JustPressedKeys(in) == {k \in Keys : IsKeyJustPressed(in, k)}

\* the last input operation.  since holds the keys that went down after the
\* last frame and are still held; of a frame, was is the value since had
\* when the frame began and seen the keys its scene update saw as just
\* pressed
LastInputOp(op, since, was, seen) == [op |-> op, since |-> since, was |-> was, seen |-> seen]

\* a keydown event between two frames
KeyDownEvent(key) ==
  /\ input' = OnKeyDown(input, key)
  /\ in_last' = LastInputOp("keydown",
                   IF IsKeyPressed(input, key) THEN in_last.since
                   ELSE in_last.since \cup {key}, {}, {})
  /\ FrameInput

\* a keyup event between two frames
KeyUpEvent(key) ==
  /\ input' = OnKeyUp(input, key)
  /\ in_last' = LastInputOp("keyup", in_last.since \ {key}, {}, {})
  /\ FrameInput

\* the window loses focus between two frames
BlurEvent ==
  /\ input' = ResetAllKeys(input)
  /\ in_last' = LastInputOp("blur", {}, {}, {})
  /\ FrameInput

\* Game.update once the assets are loaded: InputManager.update, then the
\* scene manager's update, which reads the input
GameUpdate ==
  /\ input' = InputUpdate(input)
  /\ in_last' = LastInputOp("frame", {}, in_last.since, JustPressedKeys(InputUpdate(input)))
  /\ FrameInput

----------------------------------------------------------------------------
(* Initial states and specifications *)

NoOp == [op |-> "none", name |-> NULL, prev |-> NULL, registered |-> FALSE]

InitSM ==
  /\ sm_states = {}
  /\ sm_current = NULL
  /\ sm_calls = <<>>
  /\ sm_lastOp = NoOp

\* new ObjectPool(factory, initialSize, maxSize)
InitPool ==
  \E initialSize \in 0..1, maxSize \in {0, 2} :
    /\ op_active = <<>>
    /\ op_inactive = [i \in 1..initialSize |-> i]
    /\ op_flag = [o \in Objects |-> FALSE]
    /\ op_created = initialSize
    /\ op_maxSize = maxSize
    /\ op_last = [op |-> "none", obj |-> NULL, branch |-> "none",
                  pre |-> [active |-> <<>>, inactive |-> [i \in 1..initialSize |-> i],
                           flag |-> [o \in Objects |-> FALSE]],
                  updates |-> [o \in Objects |-> 0]]

\* values drawn for the random numbers of spawnEnemy and the EnemyShip constructor
SpawnYChoices == {-50}
VerticalSpeedChoices == {1, 2}
CooldownChoices == {MinShootCooldown, MinShootCooldown + CooldownJitter}
SpacingStepChoices == {68}
StaggerStepChoices == {68, 100}

\* the enemy as GameScene.spawnEnemy constructs it, on the scene's screen
InitEnemy ==
  \E y \in SpawnYChoices, v \in VerticalSpeedChoices, c \in CooldownChoices :
    /\ enemy = NewEnemy(y, v, c, ScreenHeight)
    /\ en_removed = FALSE
    /\ en_time = 0
    /\ en_horizon = EnemyHorizon
    /\ en_last = LastEnemyOp("none", 0, NoShoot)

\* an enemy constructed for a small screen, so that it is short-lived
InitEnemyApi ==
  \E v \in VerticalSpeedChoices, c \in CooldownChoices :
    /\ enemy = NewEnemy(-SmallScreenHeight, v, c, SmallScreenHeight)
    /\ en_removed = FALSE
    /\ en_time = 0
    /\ en_horizon = ApiHorizon
    /\ deltaTime = ApiDeltaTime
    /\ en_last = LastEnemyOp("none", 0, NoShoot)

InitTicks == deltaTime \in DeltaTimes

\* GameScene after init(): no enemies yet
NewScene == [enemies |-> <<>>, enemySpawnTimer |-> 0,
             enemySpawnInterval |-> InitialSpawnInterval, gameTime |-> 0]

NoSpawn == [spawnAttempt |-> FALSE, activeBefore |-> 0, added |-> 0,
            above |-> {}, spawnedY |-> 0]

InitScene ==
  /\ scene = NewScene
  /\ sc_collisions = 0
  /\ sc_last = NoSpawn
  /\ deltaTime \in {1, SceneMaxDeltaTime}

\* a scene that takes no part in the run
IdleScene ==
  /\ scene = NewScene
  /\ sc_collisions = 0
  /\ sc_last = NoSpawn

\* a pool that takes no part in the run
IdlePool ==
  /\ op_active = <<>>
  /\ op_inactive = <<>>
  /\ op_flag = [o \in Objects |-> FALSE]
  /\ op_created = 0
  /\ op_maxSize = 0
  /\ op_last = [op |-> "none", obj |-> NULL, branch |-> "none",
                pre |-> [active |-> <<>>, inactive |-> <<>>,
                         flag |-> [o \in Objects |-> FALSE]],
                updates |-> [o \in Objects |-> 0]]

\* the player as GameScene.initializeEntities constructs it
NoPlayerOp ==
  [op |-> "none", amount |-> 0,
   pre |-> PlayerView(NewPlayer(PlayerScreenHeight, PlayerSpriteHeight)),
   hold |-> NoHold, lastLife |-> FALSE, waited |-> 0]

InitPlayer ==
  /\ player = NewPlayer(PlayerScreenHeight, PlayerSpriteHeight)
  /\ pl_last = NoPlayerOp

\* an enemy that takes no part in the run
IdleEnemyNoTick ==
  /\ enemy = NewEnemy(-50, 1, MinShootCooldown, ScreenHeight)
  /\ en_removed = TRUE
  /\ en_time = 0
  /\ en_horizon = 0
  /\ en_last = LastEnemyOp("none", 0, NoShoot)

IdleEnemy == IdleEnemyNoTick /\ deltaTime = 1

\* the InputManager before the first event; it stays so in the runs of the
\* other components
IdleInput ==
  /\ input = NewInput
  /\ in_last = LastInputOp("none", {}, {}, {})

\* GameScene.powerUps after init(): no power-up yet
NewArena == [powerUps |-> <<>>, gameTime |-> 0, score |-> 0, isGameOver |-> FALSE,
             horizon |-> ArenaHorizon]

NoPass == [op |-> "none", log |-> <<>>, drop |-> NoDrop]

\* the scene's power-ups before the first tick; they stay so in the runs
\* of the other components
IdleArena ==
  /\ arena = NewArena
  /\ ar_last = NoPass

\* the enemy as GameScene.spawnEnemy constructs it, on the player's screen
InitArenaEnemy ==
  \E y \in SpawnYChoices :
    /\ enemy = NewEnemy(y, SceneSpeed, MinShootCooldown, PlayerScreenHeight)
    /\ en_removed = FALSE
    /\ en_time = 0
    /\ en_horizon = ArenaHorizon
    /\ en_last = LastEnemyOp("none", 0, NoShoot)

\* the numbers drawn for the drop roll (percent) and the x of a dying enemy
RollChoices == {0, 19, 20, 99}
DropXChoices == {0, 50}

NextSM ==
  \/ \E name \in StateNames : AddState(name)
  \/ \E name \in StateNames : SetState(name)
  \/ SMUpdate

NextPool ==
  \/ PoolGet
  \/ \E obj \in Objects : PoolRelease(obj)
  \/ \E dying \in SUBSET Objects : PoolUpdate(dying)

NextEnemy ==
  \/ EnemyTick
  \/ EnemyHit
  \/ \E j \in 1..MaxActiveShots : EnemyProjectileHit(j)

NextEnemyApi ==
  \/ NextEnemy
  \/ EnemyShootCall
  \/ \E amount \in DamageAmounts : EnemyTakeDamageCall(amount)

NextPlayer ==
  \/ \E up \in BOOLEAN : PlayerTick(FALSE, up)
  \/ \E amount \in DamageAmounts : PlayerTakeDamageCall(amount)
  \/ PlayerAddShieldCall
  \/ PlayerDestroyCall

NextPlayerKeys == \E fire \in BOOLEAN, up \in BOOLEAN : PlayerTick(fire, up)

NextPlayerShots ==
  \/ PlayerTick(FALSE, FALSE)
  \/ PlayerShootCall
  \/ \E j \in 1..MaxInFlight : PlayerProjectileHit(j)
  \/ PlayerTakeDamageCall(PlayerDamage)

\* the ids deactivate() is called with: the projectiles that circulate and
\* one that never leaves the inactive list
DeactivateIds == (InitialPoolSize - MaxInFlight)..InitialPoolSize

NextProjectiles ==
  \/ NextPlayerShots
  \/ \E id \in DeactivateIds : PlayerProjectileDeactivate(id)

\* fire held in every tick, and the enemy hits that destroy the player
NextHeldFire ==
  \/ PlayerTick(TRUE, FALSE)
  \/ PlayerTakeDamageCall(PlayerDamage)

NextArena ==
  \/ \E up \in BOOLEAN, shots \in 0..MaxShooters : ArenaTick(up, shots)
  \/ \E x \in DropXChoices, roll \in RollChoices : ArenaEnemyHit(x, roll)

NextSpawns ==
  \E y0 \in SpawnYChoices, step \in StaggerStepChoices :
    SceneUpdate(0, 0, 1, y0, step, SceneSpeed, MinShootCooldown)

NextScore ==
  \/ ArenaTick(FALSE, 0)
  \/ \E x \in DropXChoices, roll \in RollChoices : ArenaEnemyHit(x, roll)

NextRestart ==
  \/ ArenaTick(FALSE, 0)
  \/ \E x \in DropXChoices, roll \in RollChoices : ArenaEnemyHit(x, roll)
  \/ ArenaDestroyCall
  \/ \E space \in BOOLEAN : ArenaGameOverTick(space)

NextInput ==
  \/ \E key \in Keys : KeyDownEvent(key)
  \/ \E key \in Keys : KeyUpEvent(key)
  \/ BlurEvent
  \/ GameUpdate

NextScene ==
  \E hit \in 0..Len(scene.enemies), shotAt \in 0..Len(scene.enemies),
     shotJ \in 1..MaxActiveShots, y0 \in SpawnYChoices, step \in SpacingStepChoices :
    SceneUpdate(hit, shotAt, shotJ, y0, step, SceneSpeed, MinShootCooldown)


\* The initial state of each run: the component under study as constructed,
\* the other components at rest.
InitStateMachineRun == InitSM /\ IdlePool /\ IdleEnemy /\ IdleScene /\ InitPlayer
    /\ IdleArena /\ IdleInput
InitPoolRun == InitSM /\ InitPool /\ IdleEnemy /\ IdleScene /\ InitPlayer
    /\ IdleArena /\ IdleInput
InitEnemyRun == InitSM /\ IdlePool /\ InitEnemy /\ InitTicks /\ IdleScene /\ InitPlayer
    /\ IdleArena /\ IdleInput
InitEnemyApiRun == InitSM /\ IdlePool /\ InitEnemyApi /\ IdleScene /\ InitPlayer
    /\ IdleArena /\ IdleInput
InitSceneRun == InitSM /\ IdlePool /\ IdleEnemyNoTick /\ InitScene /\ InitPlayer
    /\ IdleArena /\ IdleInput
InitSpawnsRun ==
  InitSM /\ IdlePool /\ IdleEnemyNoTick /\ IdleScene /\ InitPlayer /\ IdleArena /\ IdleInput
    /\ deltaTime = SceneMaxDeltaTime
InitPlayerRun ==
  InitSM /\ IdlePool /\ IdleEnemyNoTick /\ IdleScene /\ InitPlayer /\ IdleArena /\ IdleInput
    /\ deltaTime = PlayerDeltaTime
InitPlayerKeysRun ==
  InitSM /\ IdlePool /\ IdleEnemyNoTick /\ IdleScene /\ InitPlayer /\ IdleArena /\ IdleInput /\ InitTicks
InitArenaRun ==
  InitSM /\ IdlePool /\ InitArenaEnemy /\ IdleScene /\ InitPlayer /\ IdleArena /\ IdleInput
    /\ deltaTime = PlayerDeltaTime
InitScoreRun ==
  InitSM /\ IdlePool /\ InitArenaEnemy /\ IdleScene /\ InitPlayer
    /\ arena = [NewArena EXCEPT !.horizon = ScoreHorizon] /\ ar_last = NoPass /\ IdleInput
    /\ deltaTime = PlayerDeltaTime
InitInputRun ==
  InitSM /\ IdlePool /\ IdleEnemy /\ IdleScene /\ InitPlayer /\ IdleArena /\ IdleInput
InitPlayerShotsRun ==
  InitSM /\ IdlePool /\ IdleEnemyNoTick /\ IdleScene /\ InitPlayer /\ IdleArena /\ IdleInput
    /\ deltaTime \in {ShotsDeltaTime, PlayerDeltaTime}

SpecSM == InitStateMachineRun /\ [][NextSM]_vars
SpecPool == InitPoolRun /\ [][NextPool]_vars
SpecEnemy == InitEnemyRun /\ [][NextEnemy]_vars
SpecEnemyApi == InitEnemyApiRun /\ [][NextEnemyApi]_vars
SpecScene == InitSceneRun /\ [][NextScene]_vars
SpecSpawns == InitSpawnsRun /\ [][NextSpawns]_vars
SpecPlayer == InitPlayerRun /\ [][NextPlayer]_vars
SpecPlayerKeys == InitPlayerKeysRun /\ [][NextPlayerKeys]_vars

SpecPlayerShots == InitPlayerShotsRun /\ [][NextPlayerShots]_vars
SpecProjectiles == InitPlayerShotsRun /\ [][NextProjectiles]_vars
SpecHeldFire == InitPlayerRun /\ [][NextHeldFire]_vars
SpecArena == InitArenaRun /\ [][NextArena]_vars
SpecScore == InitScoreRun /\ [][NextScore]_vars
SpecInput == InitInputRun /\ [][NextInput]_vars
SpecRestart == InitArenaRun /\ [][NextRestart]_vars

----------------------------------------------------------------------------
(* Claims about StateMachine, checked under SpecSM *)

SetStateDone == sm_lastOp.op = "setState"

\* C1: setState(X) while the current state is already X is a no-op: no exit
\* and no enter callback is invoked and the current state is unchanged.
C1_SameStateIsNoOp ==
  (SetStateDone /\ sm_lastOp.registered /\ sm_lastOp.name = sm_lastOp.prev)
    => (sm_calls = <<>> /\ sm_current = sm_lastOp.prev)

C2_UnregisteredInv ==
  (SetStateDone /\ ~sm_lastOp.registered)
    => (sm_calls = <<>> /\ sm_current = sm_lastOp.prev)

C3_ExitSwapEnterOrder ==
  (SetStateDone /\ sm_lastOp.registered /\ sm_lastOp.name # sm_lastOp.prev)
    => /\ sm_current = sm_lastOp.name
       /\ Len(sm_calls) = (IF sm_lastOp.prev = NULL THEN 1 ELSE 2)
       /\ sm_calls[Len(sm_calls)] = [cb |-> "enter", state |-> sm_lastOp.name,
                                     cur |-> sm_lastOp.name]
       /\ sm_lastOp.prev # NULL =>
            sm_calls[1] = [cb |-> "exit", state |-> sm_lastOp.prev,
                           cur |-> sm_lastOp.prev]

C3_Witness ==
  /\ SetStateDone /\ sm_lastOp.registered
  /\ sm_lastOp.prev # NULL /\ sm_lastOp.name # sm_lastOp.prev
  /\ Len(sm_calls) = 2

----------------------------------------------------------------------------
(* Claims about ObjectPool, checked under SpecPool *)

PoolSize(p) == Len(p.active) + Len(p.inactive)

\* C4: over get() and release(obj) calls the sum of the partition sizes never
\* decreases and no object is in both partitions or twice in one.
C4_PoolConservation ==
  /\ PoolSize(PoolSnapshot) >= PoolSize(op_last.pre)
  /\ NoDup(op_active \o op_inactive)

\* C5: release(obj) of an object already in the inactive partition leaves both
\* partitions exactly as they were.
C5_ReleaseIdempotent ==
  (op_last.op = "release" /\ op_last.obj \in Range(op_last.pre.inactive))
    => (op_active = op_last.pre.active /\ op_inactive = op_last.pre.inactive)

\* C6: get() returns a member of the inactive partition when that partition is
\* non-empty and otherwise a newly constructed instance; it never returns an
\* object that was in the active partition before the call.
C6_GetReusesOrConstructs ==
  op_last.op = "get" =>
    /\ op_last.pre.inactive # <<>> => op_last.obj \in Range(op_last.pre.inactive)
    /\ op_last.pre.inactive = <<>> =>
         op_last.obj \notin Range(op_last.pre.active \o op_last.pre.inactive)
    /\ op_last.obj \notin Range(op_last.pre.active)

\* C7: update(deltaTime) advances every member that was active at the start of
\* the call exactly once, and afterwards every member reporting isActive() =
\* false is in the inactive partition exactly once and not in the active one.
C7_UpdateAdvancesAndReclaims ==
  op_last.op = "update" =>
    \A o \in Range(op_last.pre.active) :
      /\ op_last.updates[o] = 1
      /\ ~op_flag[o] => (o \notin Range(op_active) /\ Count(op_inactive, o) = 1)

----------------------------------------------------------------------------
(* Claims about EnemyShip *)

\* C8: an enemy never tracks more than 3 outstanding projectiles, and a
\* shoot() call made while it tracks 3 or while it is inactive creates no
\* projectile, leaves the list unchanged and does not change the FSM state.
C8_ShotCap ==
  /\ Len(enemy.activeProjectiles) <= 3
  /\ (en_last.shootCalled /\ (en_last.preLen >= 3 \/ ~en_last.preActive))
       => (en_last.fired = 0 /\ en_last.sameList /\ en_last.sameState)

C8_Witness ==
  /\ en_last.op = "update" /\ en_last.shootCalled
  /\ en_last.preLen = 3 /\ en_last.preActive /\ en_last.fired = 0

\* C9: two consecutive shots of an enemy are at least 0.5 s apart: at least 30
\* deltaTime units at the 16.67 ms per unit of EnemyShip.update.
C9_MinShotInterval ==
  enemy.lastGap >= 0 =>
    (enemy.lastGap * MsPerTickHundredths >= 50000 /\ enemy.lastGap >= 30)

C9_Witness ==
  enemy.lastGap = 30 /\ en_last.op = "update" /\ en_last.fired = 1

\* C18: enemy health never goes below 0: after any takeDamage calls with
\* positive amounts, 0 <= health <= 100.
C18_EnemyHealthFloor == 0 <= enemy.health /\ enemy.health <= 100

\* C19: an enemy at health 100 that takes two hits of 50 is Damaged, at health
\* 50 and active after the first, and Destroyed, inactive and isDestroyed on
\* the second; it is Destroyed exactly when its health is used up.
C19_DestroyedOnSecondHit ==
  /\ (en_last.op = "takeDamage" /\ en_last.amount = 50 /\ en_last.wasActive
        /\ en_last.preHealth = 100)
       => /\ enemy.state = "damaged" /\ enemy.health = 50
          /\ enemy.active /\ ~EnemyIsDestroyed(enemy)
  /\ (en_last.op = "takeDamage" /\ en_last.amount = 50 /\ en_last.wasActive
        /\ en_last.preHealth = 50)
       => /\ enemy.state = "destroyed" /\ ~enemy.active
          /\ EnemyIsDestroyed(enemy)
  /\ enemy.state = "destroyed" <=> enemy.health <= 0

C19_Witness ==
  /\ en_last.op = "takeDamage" /\ en_last.amount = 50 /\ en_last.wasActive
  /\ en_last.preHealth = 50
  /\ enemy.state = "destroyed" /\ ~enemy.active /\ enemy.health = 0

----------------------------------------------------------------------------
(* Claims about GameScene *)

\* C10: the scene never holds more than 10 active enemies, and a spawn attempt
\* made while 10 enemies are active adds no enemy.
C10_EnemyCap ==
  /\ ActiveCount(scene.enemies) <= 10
  /\ (sc_last.spawnAttempt /\ sc_last.activeBefore >= 10) => sc_last.added = 0

C10_Witness ==
  /\ sc_last.spawnAttempt /\ sc_last.activeBefore = 10 /\ sc_last.added = 0
  /\ ActiveCount(scene.enemies) = 10

\* C31: every enemy is spawned above the visible area (y < 0) and, when it
\* is spawned, its y differs by at least the minimum vertical spacing (1.5
\* times the estimated enemy height) from the y of every active enemy that is
\* still above the screen.
C31_StaggeredSpawn ==
  sc_last.added = 1 =>
    /\ sc_last.spawnedY < 0
    /\ \A enemyY \in sc_last.above :
         2 * Abs(enemyY - sc_last.spawnedY) >= 3 * EstimatedEnemyHeight

----------------------------------------------------------------------------
(* Claims about PlayerShip, checked under SpecPlayer *)

\* C17: in every reachable state of the player 0 <= health <= 100 and
\* 0 <= shieldHealth <= 100, over takeDamage, addShield, respawn and ticks.
C17_PlayerHealthBounds ==
  /\ 0 <= player.health /\ player.health <= 100
  /\ 0 <= player.shieldHealth /\ player.shieldHealth <= 100

C17_Witness ==
  /\ pl_last.op = "takeDamage" /\ pl_last.amount = 50
  /\ pl_last.pre.health > 0 /\ pl_last.pre.shieldHealth = 0
  /\ pl_last.pre.state \notin {"destroyed", "invulnerable"}
  /\ player.health = 0

\* did the last operation find the player in a state where takeDamage acts?
Damageable == pl_last.pre.state \notin {"destroyed", "invulnerable"}

C13_DamageIgnored ==
  (pl_last.op = "takeDamage" /\ ~Damageable)
    => /\ player.health = pl_last.pre.health
       /\ player.shieldHealth = pl_last.pre.shieldHealth
       /\ player.lives = pl_last.pre.lives
       /\ player.state = pl_last.pre.state

C13_Witness ==
  /\ pl_last.op = "takeDamage" /\ pl_last.pre.state = "invulnerable"
  /\ player.shieldHealth = 100 /\ player.health = 100

\* C14: a player with 2 lives that is Destroyed at health 0 stays Destroyed and
\* inactive until 120 deltaTime units have accumulated, and the tick that
\* completes them leaves health at maxHealth, the position at the spawn point,
\* the player active and the state Invulnerable.
C14_RespawnAfterDestroyTime ==
  (pl_last.pre.state = "destroyed" /\ pl_last.pre.lives = 2 /\ pl_last.pre.health = 0)
    => IF pl_last.op = "update" /\ pl_last.pre.destroyTimer + deltaTime >= 120
         THEN /\ player.health = 100
              /\ player.y = player.screenHeight - 120
              /\ player.active
              /\ player.state = "invulnerable"
         ELSE player.state = "destroyed" /\ ~player.active

C14_Witness ==
  /\ pl_last.op = "update" /\ pl_last.pre.state = "destroyed"
  /\ pl_last.pre.lives = 2 /\ pl_last.pre.health = 0
  /\ pl_last.pre.y # player.screenHeight - 120
  /\ player.state = "invulnerable"

\* C15: a player with 1 life that a hit brings to health 0 triggers exactly one
\* game-over notification and never becomes Invulnerable afterwards.
C15_LastLifeGameOver ==
  pl_last.lastLife => (player.gameOverCalls = 1 /\ player.state # "invulnerable")

\* C16: every entry into Destroyed through takeDamage decrements lives by
\* exactly 1, and lives changes at no other time during play.
C16_LivesPerDestroy ==
  /\ (pl_last.op = "takeDamage" /\ pl_last.pre.state # "destroyed"
        /\ player.state = "destroyed")
       => player.lives = pl_last.pre.lives - 1
  /\ (pl_last.op \in {"update", "addShield"}
        \/ (pl_last.op = "takeDamage" /\ player.state # "destroyed"))
       => player.lives = pl_last.pre.lives

\* C23: update(deltaTime) advances the state machine whatever the active flag:
\* a player that is inactive in Destroyed accumulates deltaTime in its respawn
\* timer on every tick, until the tick that respawns it.
C23_InactiveStillTicks ==
  (pl_last.op = "update" /\ pl_last.pre.state = "destroyed" /\ ~pl_last.pre.active)
    => \/ /\ player.state = "destroyed"
          /\ player.destroyTimer = pl_last.pre.destroyTimer + deltaTime
       \/ /\ pl_last.pre.destroyTimer + deltaTime >= DestroyTime
          /\ player.state = "invulnerable"

C23_Witness ==
  /\ pl_last.op = "update" /\ pl_last.pre.state = "destroyed" /\ ~pl_last.pre.active
  /\ pl_last.pre.destroyTimer > 0
  /\ player.state = "destroyed" /\ ~player.active
  /\ player.destroyTimer = pl_last.pre.destroyTimer + deltaTime

\* C27: addShield() sets shieldHealth to 100 whatever the prior value and
\* changes nothing else, so a second consecutive call leaves the state as the
\* first left it (no stacking).
C27_AddShieldIdempotent ==
  pl_last.op = "addShield"
    => /\ player.shieldHealth = 100
       /\ PlayerView(player) = [pl_last.pre EXCEPT !.shieldHealth = 100]

C27_Witness ==
  /\ pl_last.op = "addShield" /\ pl_last.pre.shieldHealth = 100
  /\ pl_last.pre.health < 100
  /\ player.shieldHealth = 100

\* C29: fatal damage taken while Damaged moves the player to Destroyed in the
\* same call, with the damage visual cleared by Damaged.exit, and from
\* Destroyed the player only ever stays Destroyed or respawns into
\* Invulnerable: the Damaged timer never brings it to Idle.
C29_FatalWhileDamaged ==
  /\ (pl_last.op = "takeDamage" /\ pl_last.pre.state = "damaged"
        /\ pl_last.pre.shieldHealth = 0 /\ pl_last.pre.health <= pl_last.amount)
       => /\ player.state = "destroyed" /\ player.health = 0
          /\ ~player.damageVisual /\ ~player.active
  /\ pl_last.pre.state = "destroyed"
       => player.state \in {"destroyed", "invulnerable"}

C29_Witness ==
  /\ pl_last.op = "takeDamage" /\ pl_last.pre.state = "damaged"
  /\ pl_last.pre.shieldHealth = 0 /\ pl_last.pre.health <= pl_last.amount
  /\ player.state = "destroyed" /\ ~player.damageVisual

----------------------------------------------------------------------------
(* Claims about the player's fire input, checked under SpecPlayerKeys *)

----------------------------------------------------------------------------
(* Claims about the player's pooled projectiles, checked under SpecPlayerShots *)

InActivePartition(pool, id) ==
  \E k \in 1..Len(pool.active) : pool.active[k].id = id

InInactivePartition(pool, id) ==
  \E k \in 1..Len(pool.inactive) : pool.inactive[k].id = id

\* the pooled object with this id, in whichever partition holds it
PooledAt(pool, id) ==
  LET all == pool.active \o pool.inactive
  IN all[CHOOSE k \in 1..Len(all) : all[k].id = id]

\* the projectile the last shoot() handed out
HandedOut == player.pool.active[Len(player.pool.active)]

\* C21: a pooled projectile that was fired and then received onCollision() is
\* back in the inactive partition of its pool, and out of the active one,
\* after the next tick that leaves its owner active and at the latest when
\* the owner's ticks have delivered the respawn delay; every object of the
\* pool is in exactly one partition; every shoot() hands out an object in
\* state Active, with active = true, at the fire position, and it can be an
\* object that exploded before.
C21_RoundTrip ==
  /\ AnyExploding(player.pool) => pl_last.waited < DestroyTime
  /\ (pl_last.op = "update" /\ player.active) => ~AnyExploding(player.pool)
  /\ \A id \in 1..player.pool.created :
       InActivePartition(player.pool, id) # InInactivePartition(player.pool, id)
  /\ \A k \in 1..Len(player.pool.inactive) :
       player.pool.inactive[k].state = "inactive" /\ ~player.pool.inactive[k].active
  /\ pl_last.op = "shoot"
       => /\ HandedOut.state = "active" /\ HandedOut.active
          /\ HandedOut.y = player.y - (player.height \div 2)

C21_Witness ==
  /\ pl_last.op = "shoot" /\ HandedOut.explosionTimer > 0
  /\ HandedOut.state = "active" /\ HandedOut.active
  /\ HandedOut.y = player.y - (player.height \div 2)

C22_Step ==
  \A id \in 1..player.pool.created :
    LET q == PooledAt(player.pool, id)
        y == q.y + q.velocityY * deltaTime
        after == PooledAt(player'.pool, id)
    IN /\ (q.state = "active" /\ pl_last'.op = "update" /\ player.active)
            => IF y < -50 \/ y > q.screenHeight + 50
                 THEN /\ after.state = "inactive" /\ ~after.active
                      /\ InInactivePartition(player'.pool, id)
                      /\ ~InActivePartition(player'.pool, id)
                 ELSE /\ after.state = "active" /\ after.active /\ after.y = y
                      /\ InActivePartition(player'.pool, id)
       /\ (after.state = "exploding" /\ q.state # "exploding")
            => (pl_last'.op = "onCollision" /\ pl_last'.amount = id)

----------------------------------------------------------------------------
(* Claims about the enemy's timers, checked under SpecEnemy *)

----------------------------------------------------------------------------
(* Claims about the collision pass and the power-ups, checked under          *)
(* SpecArena                                                                 *)

\* C24: the collision pass never dispatches a collision event (takeDamage,
\* onCollision, addShield, onCollected) that involves an entity whose active
\* flag is false when it is dispatched, a player that became inactive earlier
\* in the same pass included.
C24_NoInactiveDispatch ==
  \A k \in 1..Len(ar_last.log) :
    ar_last.log[k].playerActive /\ ar_last.log[k].otherActive

\* C25: a power-up is not interactive once Collected: addShield and
\* onCollected are dispatched for it at most once.
C25_CollectedOnce ==
  \A i \in 1..Len(arena.powerUps) : arena.powerUps[i].pickups <= 1

\* C26: a power-up that has been collected becomes inactive and leaves the
\* scene's list once the collection time has been delivered to it, wherever
\* the player is.
C26_CollectedExpires ==
  \A i \in 1..Len(arena.powerUps) :
    arena.powerUps[i].sinceCollected < CollectionTime

----------------------------------------------------------------------------
(* Claims about the score, checked under SpecScore *)

\* C32: the score never decreases during a game, and the enemy awards the
\* fixed 100 points exactly once, when a player projectile destroys it: the
\* score is 100 once the enemy is destroyed and 0 before and when the enemy
\* only leaves the screen; the player's score is the scene's.
C32_ScoreOncePerKill ==
  /\ [](/\ arena.score = (IF enemy.state = "destroyed" THEN KillPoints ELSE 0)
        /\ player.score = arena.score)
  /\ [][arena'.score >= arena.score /\ player'.score >= player.score]_vars

C32_Witness ==
  /\ enemy.state = "destroyed" /\ en_removed
  /\ ar_last.op = "update" /\ arena.gameTime >= ScoreHorizon
  /\ arena.score = KillPoints /\ player.score = KillPoints

----------------------------------------------------------------------------
(* Claims about game over and restart, checked under SpecRestart *)

\* C33: when restartGame returns the scene is not in game over, its enemy
\* and power-up lists are empty and it holds a fresh player with 3 lives and
\* full health.
C33_RestartLeavesGameOver ==
  ar_last.op = "restart" =>
    /\ ~arena.isGameOver
    /\ en_removed /\ arena.powerUps = <<>>
    /\ player.lives = InitialLives /\ player.health = PlayerMaxHealth
    /\ player.state = "idle" /\ player.active

----------------------------------------------------------------------------
(* Claims about the SideQuest InputManager, checked under SpecInput *)

\* C34: a key that went down between two frames (and is still held) is
\* reported by isKeyJustPressed as true during the scene update of the next
\* frame, and as false in the frame after: the scene update of a frame sees
\* as just pressed exactly the keys that went down since the frame before.
C34_JustPressedSeenOnce ==
  in_last.op = "frame" => in_last.seen = in_last.was

----------------------------------------------------------------------------
(* Claims about the ProjectilePool's lists, checked under SpecProjectiles   *)

Occurrences(list, id) == Cardinality({k \in 1..Len(list) : list[k].id = id})

----------------------------------------------------------------------------
(* Claims about the spacing of the player's shots, checked under SpecHeldFire *)

C36_Step ==
  /\ player'.shotsFired <= 1
  /\ (/\ pl_last.op = "update" /\ player.shotsFired > 0
      /\ pl_last'.op = "update" /\ deltaTime < PlayerShootCooldown)
       => player'.shotsFired = 0

\* C36: with fire held in every tick, no tick makes two shoot() calls, and a
\* tick that follows a tick with a shoot() call by less than shootCooldown
\* makes none, in every state of the player.
C36_HeldFireSpacing == [][C36_Step]_vars

----------------------------------------------------------------------------
(* Claims about the player's active flag, checked under SpecPlayer *)

\* C37: between operations the player's active flag is false exactly when
\* its state is Destroyed.
C37_InactiveIffDestroyed ==
  player.active = (player.state # "destroyed")

\* a tick has respawned a destroyed, inactive player
C37_Witness ==
  /\ pl_last.op = "update"
  /\ pl_last.pre.state = "destroyed" /\ ~pl_last.pre.active
  /\ player.state = "invulnerable" /\ player.active

----------------------------------------------------------------------------
(* Claims about the enemy's damaged tint *)

\* C38: an enemy with health > 0 in Moving or Shooting does not show the
\* damaged tint.
C38_TintOnlyWhileDamaged ==
  (enemy.health > 0 /\ enemy.state \in {"moving", "shooting"}) => ~enemy.damagedVisual

----------------------------------------------------------------------------
(* Claims about the projectiles of an inactive enemy, checked under SpecScene *)

\* an enemy the collision pass has deactivated is still in the scene's list
\* after the pass, for the next tick to remove it
InactiveInList(sc) == {i \in 1..Len(sc.enemies) : ~sc.enemies[i].active}

\* C39: after a tick, no projectile of an inactive enemy of the scene's list
\* has received the collision with the player (none is Exploding), although
\* the pass found it overlapping; and the next tick removes every inactive
\* enemy, with its projectiles, from the list the pass iterates over: the
\* list it leaves holds, besides a spawned enemy, no more enemies than were
\* active before it.
C39_InactiveEnemyShotsHarmless ==
  /\ [](\A i \in InactiveInList(scene) :
         \A k \in 1..Len(scene.enemies[i].activeProjectiles) :
           scene.enemies[i].activeProjectiles[k].state = "active")
  /\ [][Len(scene'.enemies) <= ActiveCount(scene.enemies) + sc_last'.added]_vars

\* the pass has destroyed an enemy whose projectile is in flight within reach
\* of the player
C39_Witness ==
  \E i \in InactiveInList(scene) :
    /\ scene.enemies[i].health <= 0
    /\ \E k \in 1..Len(scene.enemies[i].activeProjectiles) :
         CanReachPlayer(scene.enemies[i].activeProjectiles[k])

====
